---- MODULE Spec2Model ----
(***************************************************************************)
(* Discord chatbot bridge service (service.py, db.py, client.py).          *)
(*                                                                         *)
(* The service runs on one asyncio event loop.  Coroutines (the HTTP       *)
(* handlers /bot/connect and /bot/disconnect, the session task _run_bot    *)
(* and the gateway callbacks on_ready / on_disconnect / on_message) are    *)
(* interleaved only at their await points.  The model keeps asyncio's      *)
(* ready queue explicitly: `ready` is the FIFO of runnable steps, the      *)
(* action that runs a step requires it to be at the head of the queue,     *)
(* and runs the code up to its next suspending await.  I/O completions     *)
(* and arrivals from the network append to the queue at any time.          *)
(***************************************************************************)
EXTENDS Integers, Sequences, FiniteSets, TLC

(* ------------------------------ bounds --------------------------------- *)
\* HTTP control requests (connect / disconnect) issued in one run.
MaxReqs == 3
\* Gateway events (READY, disconnect, session failure) delivered in one run.
MaxGateway == 2

\* Concurrent calls of get_or_create_conversation in one run.
MaxCalls == 2

\* Gateway message events delivered in one run.
MaxMsgs == 2

ReqIds  == 1..MaxReqs
\* Every session task is created by one connect request.
TaskIds == 1..MaxReqs
CallIds == 1..MaxCalls
MsgIds  == 1..MaxMsgs

(* --------------------------- values and dicts -------------------------- *)
\* Python's None for string-valued fields.
None == "None"

Tokens == {"tokA", "tokB"}

(* Python values where their type matters: int(), truthiness *)
PyNone == [t |-> "none"]
PyInt(n) == [t |-> "int", v |-> n]
PyStr(x) == [t |-> "str", v |-> x]
PyDict(d) == [t |-> "dict", v |-> d]
PyList(q) == [t |-> "list", v |-> q]
\* int(x) of the strings that are numerals; int() of any other string raises.
IntLiteral == ("2" :> 2) @@ ("30" :> 30) @@ ("0" :> 0)
\* bool(value)
Truthy(value) ==
    CASE value.t = "none" -> FALSE
      [] value.t = "int"  -> value.v # 0
      [] value.t = "str"  -> value.v # ""
      [] value.t = "dict" -> DOMAIN value.v # {}
      [] value.t = "list" -> Len(value.v) > 0
\* try: int(value) / except (TypeError, ValueError): 0
IntOrZero(value) ==
    CASE value.t = "int"  -> value.v
      [] value.t = "str"  -> IF value.v \in DOMAIN IntLiteral THEN IntLiteral[value.v] ELSE 0
      [] value.t = "none" -> 0

\* {} : the dict with no keys.
EmptyDict == [k \in {} |-> None]

\* dict.get(k) for string values: None when the key is missing.
GetStr(d, k) == IF k \in DOMAIN d THEN d[k] ELSE None
\* dict.get(k, default) for booleans, through bool().
GetBool(d, k, default) == IF k \in DOMAIN d THEN d[k] ELSE default
\* dict.get(k) or []
GetList(d, k) == IF k \in DOMAIN d THEN d[k] ELSE <<>>
\* dict.get(k) or {}
GetDict(d, k) == IF k \in DOMAIN d THEN d[k] ELSE EmptyDict
\* x or default, for strings (None and "" are falsy).
OrStr(x, default) == IF x = None \/ x = "" THEN default ELSE x

\* os.getenv(NAME, "") of the process: the variables are not set.
BRAINDRIVE_USER_ID       == ""
BRAINDRIVE_API_URL       == ""
BRAINDRIVE_PLUGIN_SLUG   == ""
BRAINDRIVE_AUTH_TOKEN    == ""
BRAINDRIVE_REFRESH_TOKEN == ""

\* Bodies of POST /bot/connect (without the token, which is passed apart).
PayloadA ==
    [mention_only |-> FALSE, guild_allowlist |-> <<"g1">>,
     user_id |-> "u0", api_url |-> "http://api", plugin_slug |-> "slug",
     auth_token |-> "at0", refresh_token |-> "rt0", model |-> "m1"]
PayloadB ==
    [channel_allowlist |-> <<"c1">>, settings_instance_id |-> "s1",
     api_url |-> "http://api", auth_token |-> "at0",
     history |-> [max_turns |-> PyInt(2)]]
Payloads == {PayloadA, PayloadB}
\* Bodies without allowlists: mention-only off, and mention-only by default.
PayloadC ==
    [mention_only |-> FALSE, api_url |-> "http://api", auth_token |-> "at0"]
PayloadD ==
    [guild_allowlist |-> <<>>, channel_allowlist |-> <<>>, target_user_id |-> "u1",
     api_url |-> "http://api", auth_token |-> "at0", refresh_token |-> "rt0"]
\* A body with a refresh token and no URL of the API.
PayloadE ==
    [mention_only |-> FALSE, auth_token |-> "at0", refresh_token |-> "rt0"]
AllPayloads == Payloads \cup {PayloadC, PayloadD, PayloadE}

\* The dict start_bot builds from the request.
start_bot_config(token, payload) ==
    [token                |-> token,
     mention_only         |-> GetBool(payload, "mention_only", TRUE),
     guild_allowlist      |-> GetList(payload, "guild_allowlist"),
     channel_allowlist    |-> GetList(payload, "channel_allowlist"),
     user_id              |-> OrStr(GetStr(payload, "user_id"), BRAINDRIVE_USER_ID),
     target_user_id       |-> GetStr(payload, "target_user_id"),
     settings_instance_id |-> GetStr(payload, "settings_instance_id"),
     service_secret       |-> GetStr(payload, "service_secret"),
     rag_collection_id    |-> GetStr(payload, "rag_collection_id"),
     model                |-> GetStr(payload, "model"),
     persona_id           |-> GetStr(payload, "persona_id"),
     history              |-> GetDict(payload, "history"),
     config               |-> GetDict(payload, "config"),
     api_url              |-> OrStr(GetStr(payload, "api_url"), BRAINDRIVE_API_URL),
     plugin_slug          |-> OrStr(GetStr(payload, "plugin_slug"), BRAINDRIVE_PLUGIN_SLUG),
     auth_token           |-> OrStr(GetStr(payload, "auth_token"), BRAINDRIVE_AUTH_TOKEN),
     refresh_token        |-> OrStr(GetStr(payload, "refresh_token"), BRAINDRIVE_REFRESH_TOKEN)]

(* ------------------------------ strings -------------------------------- *)
\* The spelling of the strings that reach the Conversation Store.  strip()
\* and lower() are computed on the spelling.
Spell ==
    ("" :> <<>>) @@ (" " :> <<" ">>) @@
    ("g1" :> <<"g", "1">>) @@ (" g1" :> <<" ", "g", "1">>) @@
    ("c1" :> <<"c", "1">>) @@ ("c1 " :> <<"c", "1", " ">>) @@
    ("c2" :> <<"c", "2">>) @@ ("s1" :> <<"s", "1">>) @@
    ("d1" :> <<"d", "1">>) @@ ("d2" :> <<"d", "2">>) @@
    ("n1" :> <<"n", "1">>) @@ ("u0" :> <<"u", "0">>) @@ ("u1" :> <<"u", "1">>) @@
    ("channel" :> <<"c", "h", "a", "n", "n", "e", "l">>) @@
    ("guild" :> <<"g", "u", "i", "l", "d">>) @@
    ("Guild" :> <<"G", "u", "i", "l", "d">>) @@
    (" Guild " :> <<" ", "G", "u", "i", "l", "d", " ">>) @@
    ("dm" :> <<"d", "m">>) @@ ("DM" :> <<"D", "M">>) @@
    ("thread" :> <<"t", "h", "r", "e", "a", "d">>) @@
    ("g2" :> <<"g", "2">>) @@
    ("m1" :> <<"m", "1">>) @@ ("m2" :> <<"m", "2">>) @@
    ("m3" :> <<"m", "3">>) @@ ("m4" :> <<"m", "4">>) @@
    ("hi" :> <<"h", "i">>) @@ (" hi" :> <<" ", "h", "i">>) @@
    ("hihi" :> <<"h", "i", "h", "i">>) @@ ("1" :> <<"1">>) @@
    ("hi  <@!1>" :> <<"h", "i", " ", " ", "<", "@", "!", "1", ">">>) @@
    ("<@1>" :> <<"<", "@", "1", ">">>) @@
    ("<@!1>" :> <<"<", "@", "!", "1", ">">>) @@
    ("<@1> hi" :> <<"<", "@", "1", ">", " ", "h", "i">>) @@
    ("<@!1> hi" :> <<"<", "@", "!", "1", ">", " ", "h", "i">>) @@
    ("hi <@1> <@!1>" :> <<"h", "i", " ", "<", "@", "1", ">", " ", "<", "@", "!", "1", ">">>) @@
    ("<@1><@!1>" :> <<"<", "@", "1", ">", "<", "@", "!", "1", ">">>) @@
    ("hi<@!1>hi" :> <<"h", "i", "<", "@", "!", "1", ">", "h", "i">>) @@
    ("http://api" :> <<"h", "t", "t", "p", ":", "/", "/", "a", "p", "i">>) @@
    ("http://api/" :> <<"h", "t", "t", "p", ":", "/", "/", "a", "p", "i", "/">>)

Unspell(q) == CHOOSE x \in DOMAIN Spell : Spell[x] = q

RECURSIVE LStrip(_)
LStrip(q) == IF q # <<>> /\ Head(q) = " " THEN LStrip(Tail(q)) ELSE q
RECURSIVE RStrip(_)
RStrip(q) ==
    IF q # <<>> /\ q[Len(q)] = " " THEN RStrip(SubSeq(q, 1, Len(q) - 1)) ELSE q

\* str.strip()
Strip(x) == Unspell(RStrip(LStrip(Spell[x])))

LowerChar(c) ==
    CASE c = "D" -> "d" [] c = "M" -> "m" [] c = "G" -> "g" [] OTHER -> c
\* str.lower()
Lower(x) == Unspell([i \in DOMAIN Spell[x] |-> LowerChar(Spell[x][i])])

(* -------------------------- db.py: normalization ----------------------- *)
_normalize_id(value) == IF value = None THEN "" ELSE Strip(value)

_normalize_scope(scope) ==
    LET normalized == Lower(Strip(OrStr(scope, "channel")))
    IN IF normalized \notin {"channel", "guild", "dm"} THEN "channel" ELSE normalized

\* Lines 169-176 without the fall-back of dm to channel.
_conversation_scope_values_no_downgrade(normalized_scope, guild_value, channel_value, settings_value) ==
    IF normalized_scope = "guild" /\ guild_value # ""
    THEN <<normalized_scope, guild_value, "", settings_value>>
    ELSE <<normalized_scope, guild_value, channel_value, settings_value>>

\* Lines 169-176: the result for the normalized components.
_conversation_scope_values_return(normalized_scope, guild_value, channel_value, settings_value) ==
    IF normalized_scope = "guild" /\ guild_value # ""
    THEN <<normalized_scope, guild_value, "", settings_value>>
    ELSE IF normalized_scope = "dm" /\ guild_value # ""
    THEN <<"channel", guild_value, channel_value, settings_value>>
    ELSE <<normalized_scope, guild_value, channel_value, settings_value>>

\* (normalized_scope, guild_value, channel_value, settings_value)
_conversation_scope_values(scope, guild_id, channel_id, settings_instance_id) ==
    _conversation_scope_values_return(_normalize_scope(scope), _normalize_id(guild_id),
                                      _normalize_id(channel_id),
                                      _normalize_id(settings_instance_id))

(* ------------------- db.py: get_or_create_conversation ----------------- *)
\* A SELECT that leaves the channel out of its WHERE clause.
SelectConversation_no_channel(convs, discord_user_value, guild_value, channel_value, settings_value) ==
    SelectSeq(convs, LAMBDA row :
        /\ row.discord_user_id = discord_user_value
        /\ row.guild_id = guild_value
        /\ row.settings_instance_id = settings_value)

\* A SELECT that compares the author with the wrong column.
SelectConversation_wrong_column(convs, discord_user_value, guild_value, channel_value, settings_value) ==
    SelectSeq(convs, LAMBDA row :
        /\ row.user_id = discord_user_value
        /\ row.guild_id = guild_value
        /\ row.channel_id = channel_value
        /\ row.settings_instance_id = settings_value)

\* The rows of discord_conversation matched by the SELECT, in table order.
SelectConversation(convs, discord_user_value, guild_value, channel_value, settings_value) ==
    SelectSeq(convs, LAMBDA row :
        /\ row.discord_user_id = discord_user_value
        /\ row.guild_id = guild_value
        /\ row.channel_id = channel_value
        /\ row.settings_instance_id = settings_value)

\* Lines 211-247: the row found is touched, or a row is inserted under a
\* fresh id.  The table after it, and the id returned.
get_or_create_conversation_write(convs, now, user_id, discord_user_value, discord_username_value, v, rows) ==
    IF rows # <<>>
    THEN [convs |-> [i \in DOMAIN convs |->
                        IF convs[i].id = rows[1].id
                        THEN [convs[i] EXCEPT !.updated_at = now,
                                              !.discord_username = discord_username_value,
                                              !.scope = v[1]]
                        ELSE convs[i]],
          id |-> rows[1].id]
    ELSE [convs |-> Append(convs,
                      [id |-> Len(convs) + 1, user_id |-> user_id,
                       discord_user_id |-> discord_user_value,
                       discord_username |-> discord_username_value,
                       guild_id |-> v[2], channel_id |-> v[3],
                       settings_instance_id |-> v[4], scope |-> v[1],
                       created_at |-> now, updated_at |-> now]),
          id |-> Len(convs) + 1]

\* Lines 200-211: the SELECT on the normalized values.
get_or_create_conversation_select(convs, now, user_id, discord_user_value, discord_username_value, v) ==
    get_or_create_conversation_write(convs, now, user_id, discord_user_value,
        discord_username_value, v,
        SelectConversation(convs, discord_user_value, v[2], v[3], v[4]))

\* The function runs without an await: one call is one step of the event
\* loop.  It returns the table after the call and the id it returns.
get_or_create_conversation(convs, now, a) ==
    get_or_create_conversation_select(convs, now, a.user_id,
        _normalize_id(a.discord_user_id), _normalize_id(a.discord_username),
        _conversation_scope_values(a.scope, a.guild_id, a.channel_id,
                                   a.settings_instance_id))

(* --------------------------- _handle_message --------------------------- *)
MsgItem(m) == [k |-> "msg", id |-> m]
\* str(message.id) of the events, in order of arrival.
MessageId == <<"m1", "m2", "m3", "m4">>
\* Reply chunks are at most this long.
ChunkSize == 1900
\* history_max_turns when the configuration gives none.
DefaultMaxTurns == 6
\* history_max_age, in minutes, when the configuration gives none.
DefaultMaxAge == 120
\* get_recent_history never reads more rows than this.
HistoryCap == 50

\* d[k] = v on a dict: the key is added when it is missing.
SetKey(d, k, v) == [x \in DOMAIN d \cup {k} |-> IF x = k THEN v ELSE d[x]]
SetOf(q) == {q[i] : i \in DOMAIN q}
Min(a, b) == IF a <= b THEN a ELSE b

\* No I/O result is waiting for the handler.
NoWake == [kind |-> "none"]

\* The handler of one event: where it is suspended, and what it has done.
NoMsg ==
    [pc |-> "idle", event |-> EmptyDict, outcome |-> "none", failed |-> "none",
     error |-> None, conv |-> 0, history |-> <<>>, text |-> "", posts |-> <<>>,
     refreshes |-> 0, refreshed |-> None, first |-> None, wake |-> NoWake,
     reply |-> None, chunks |-> <<>>, sent |-> <<>>, lost |-> {}]

\* The messages the gateway delivers.
Events ==
    {[bot |-> FALSE, mentioned |-> TRUE,  guild |-> "g1", channel |-> "c1",
      author |-> "d1", content |-> "<@1> hi"],
     [bot |-> TRUE,  mentioned |-> FALSE, guild |-> "g1", channel |-> "c1",
      author |-> "d2", content |-> "hi"],
     [bot |-> FALSE, mentioned |-> FALSE, guild |-> None, channel |-> "c2",
      author |-> "d1", content |-> "hi"],
     [bot |-> FALSE, mentioned |-> TRUE,  guild |-> "g2", channel |-> "c1",
      author |-> "d1", content |-> "<@1>"]}

\* str(BOT_CLIENT.user.id)
BotUserId == "1"
\* message.content of the messages of a channel.
Contents ==
    {"", "hi", "<@1>", "<@1> hi", "<@!1> hi", "hi <@1> <@!1>", "<@1><@!1>", "hi<@!1>hi"}
\* Every message the gateway can deliver: of a user or of a bot (the bot's own
\* messages are messages of a bot), in a guild or not, mentioning the bot or not.
AllEvents ==
    {ev \in [bot : BOOLEAN, mentioned : BOOLEAN, guild : {None, "g1", "g2"},
             channel : {"c1", "c2"}, author : {"d1", BotUserId}, content : Contents] :
        ev.author = BotUserId => ev.bot}
\* str.replace(old, ""), on spellings: the occurrences of old, left to right.
RECURSIVE Remove(_, _)
Remove(q, old) ==
    IF Len(q) < Len(old) THEN q
    ELSE IF SubSeq(q, 1, Len(old)) = old
         THEN Remove(SubSeq(q, Len(old) + 1, Len(q)), old)
         ELSE <<Head(q)>> \o Remove(Tail(q), old)
\* content.replace(f"<@{id}>", "").replace(f"<@!{id}>", "")
RemoveMention(q) ==
    Remove(Remove(q, <<"<", "@">> \o Spell[BotUserId] \o <<">">>),
           <<"<", "@", "!">> \o Spell[BotUserId] \o <<">">>)

\* str.rstrip("/")
RECURSIVE RStripSlashes(_)
RStripSlashes(q) ==
    IF q # <<>> /\ q[Len(q)] = "/" THEN RStripSlashes(SubSeq(q, 1, Len(q) - 1)) ELSE q
RStripSlash(x) == Unspell(RStripSlashes(Spell[x]))

\* _string_list on a list value.
_string_list(value) == SelectSeq(value, LAMBDA item : Strip(item) # "")

_history_settings(cfg) ==
    LET history_cfg == GetDict(cfg, "history")
    IN IF DOMAIN history_cfg # {}
       THEN history_cfg
       ELSE GetDict(GetDict(cfg, "config"), "history")

\* The failures of the relay call, as post_discord_message raises them:
\* RuntimeError("BrainDrive request failed: <status> <body>").
RelayErrors ==
    {"RuntimeError('BrainDrive request failed: 401')",
     "RuntimeError('BrainDrive request failed: 500')",
     "RuntimeError('BrainDrive request failed: 500 code 401')"}
\* "401" in str(exc)
Contains401(exc) ==
    exc \in {"RuntimeError('BrainDrive request failed: 401')",
             "RuntimeError('BrainDrive request failed: 500 code 401')"}
\* What sqlite3 and the gateway raise.
StoreError == "OperationalError('database is locked')"
SendError  == "HTTPException('send failed')"

\* The reply texts of the relay, and len() of them.
TextLen ==
    ("" :> 0) @@ ("a long reply" :> 1901) @@ ("ok" :> 2) @@
    ("a full chunk" :> 1900) @@ ("two full chunks" :> 3800) @@
    ("a very long reply" :> 5000)
Replies == {"", "a long reply"}
RelayResults ==
    {[kind |-> "relay", ok |-> TRUE, reply |-> x, exc |-> None] : x \in Replies}
    \cup {[kind |-> "relay", ok |-> FALSE, reply |-> "", exc |-> e] : e \in RelayErrors}
\* The refresh endpoint answers 2xx with a body, or the call fails.
RefreshResults ==
    {[kind |-> "refresh", ok |-> TRUE,  access |-> None,  refresh |-> None],
     [kind |-> "refresh", ok |-> TRUE,  access |-> "at1", refresh |-> None],
     [kind |-> "refresh", ok |-> TRUE,  access |-> "at2", refresh |-> "rt1"],
     [kind |-> "refresh", ok |-> FALSE, access |-> None,  refresh |-> None]}
\* The answers of the refresh endpoint, with the 2xx answer that holds a
\* rotated refresh token and no access token.
AllRefreshResults ==
    RefreshResults \cup {[kind |-> "refresh", ok |-> TRUE, access |-> None, refresh |-> "rt1"]}
SendResults == {[kind |-> "send", ok |-> b] : b \in BOOLEAN}
\* The failures of the relay call with a status, and without one:
\* RuntimeError("BrainDrive request failed: <repr of the httpx error>").
AllRelayErrors ==
    RelayErrors \cup {"RuntimeError(\"BrainDrive request failed: ConnectError('All connection attempts failed')\")"}
AllRelayResults ==
    {[kind |-> "relay", ok |-> TRUE, reply |-> x, exc |-> None] : x \in DOMAIN TextLen}
    \cup {[kind |-> "relay", ok |-> FALSE, reply |-> "", exc |-> e] : e \in AllRelayErrors}

\* The store calls that fail in one step of a handler: before the first
\* await, and after it.
Faults == [lookup : BOOLEAN, history : BOOLEAN, insert : BOOLEAN, audit : BOOLEAN]
FaultsBefore == {f \in Faults : ~f.audit}
FaultsAfter  == {f \in Faults : ~f.lookup /\ ~f.history}

\* datetime.utcnow() in minutes, when a handler reads the clock: later than
\* every row of the table.
utcnow(turns) == IF turns = <<>> THEN 0 ELSE turns[Len(turns)].created_at + 1

(* db.py: insert_message *)
insert_message(turns, now, conversation_id, role, content, message_id) ==
    Append(turns, [conversation_id |-> conversation_id, role |-> role,
                   content |-> content, message_id |-> _normalize_id(message_id),
                   created_at |-> now])

(* db.py: get_recent_history *)
\* Lines 300-303.
get_recent_history_limit(max_turns) ==
    IF max_turns.t # "none" THEN IntOrZero(max_turns) ELSE 0

\* A read that applies no age bound.
get_recent_history_where_no_age(turns, now, conversation_id, max_age_minutes) ==
    SelectSeq(turns, LAMBDA row : row.conversation_id = conversation_id)

\* Lines 314-322: the rows the WHERE clause keeps.
get_recent_history_where(turns, now, conversation_id, max_age_minutes) ==
    LET age_minutes == IF Truthy(max_age_minutes) THEN IntOrZero(max_age_minutes) ELSE 0
    IN SelectSeq(turns, LAMBDA row :
          /\ row.conversation_id = conversation_id
          /\ age_minutes > 0 => row.created_at >= now - age_minutes)

\* ORDER BY created_at DESC LIMIT ?  (sqlite leaves the order of rows with
\* equal created_at open; the clock above gives every row its own instant)
RECURSIVE OrderByCreatedAtDesc(_, _)
OrderByCreatedAtDesc(rows, limit) ==
    IF limit = 0 \/ rows = <<>>
    THEN <<>>
    ELSE LET i == CHOOSE i \in DOMAIN rows :
                     \A j \in DOMAIN rows : rows[j].created_at <= rows[i].created_at
             rest == [j \in 1..(Len(rows) - 1) |-> IF j < i THEN rows[j] ELSE rows[j + 1]]
         IN <<rows[i]>> \o OrderByCreatedAtDesc(rest, limit - 1)

\* list.reverse()
Reverse(q) == [i \in DOMAIN q |-> q[Len(q) + 1 - i]]

\* Lines 330-336: the rows with a role and a content, oldest first.
get_recent_history_rows(rows) ==
    LET kept == SelectSeq(rows, LAMBDA row : row.role # "" /\ row.content # "")
    IN Reverse([i \in DOMAIN kept |-> [role |-> kept[i].role, content |-> kept[i].content]])

get_recent_history(turns, now, conversation_id, max_turns, max_age_minutes) ==
    LET limit == get_recent_history_limit(max_turns)
    IN IF conversation_id = 0 \/ limit <= 0
       THEN <<>>
       ELSE get_recent_history_rows(
               OrderByCreatedAtDesc(
                  get_recent_history_where(turns, now, conversation_id, max_age_minutes),
                  Min(limit, HistoryCap)))

(* _refresh_auth_token *)
\* Lines 43-46: is there a refresh token and a URL to send it to?
_refresh_auth_token_ready(cfg) ==
    /\ OrStr(GetStr(cfg, "refresh_token"), "") # ""
    /\ RStripSlash(OrStr(GetStr(cfg, "api_url"), "")) # ""

\* A refresh that reports success whatever the answer holds.
_refresh_auth_token_return_true(data) == TRUE

\* Line 62: return bool(new_access)
_refresh_auth_token_return(data) == data.access # None

\* A refresh that keeps the rotated refresh token and drops the access token.
_refresh_auth_token_store_refresh_only(cfg, data) ==
    IF data.refresh # None THEN SetKey(cfg, "refresh_token", data.refresh) ELSE cfg

\* Lines 55-60: the configuration after a 2xx answer with body `data`.
_refresh_auth_token_store(cfg, data) ==
    LET c1 == IF data.access # None THEN SetKey(cfg, "auth_token", data.access) ELSE cfg
    IN IF data.refresh # None THEN SetKey(c1, "refresh_token", data.refresh) ELSE c1

(* ------------------------------- state --------------------------------- *)
VARIABLES
    BOT_STATE,   \* [enabled, connected, last_error]
    BOT_CLIENT,  \* id of the discord.Client the module global refers to, 0 = None
    BOT_TASK,    \* id of the asyncio.Task the module global refers to, 0 = None
    BOT_CONFIG,  \* the configuration dict
    tasks,       \* the session tasks created so far, by id
    clients,     \* the discord.Client of each session task
    reqs,        \* the HTTP control requests, by id
    ready,       \* asyncio's ready queue
    closeJoins,  \* the library's Client.close(): does a second caller wait for the first?
    gateway,     \* gateway events delivered so far
    convs,       \* table discord_conversation, in insertion order
    calls,       \* calls of get_or_create_conversation issued by message handlers
    norm,        \* an application of _conversation_scope_values
    applied,     \* an application of a function of db.py or client.py to given arguments
    msgs,        \* the gateway message events and their handlers, by id
    turns,       \* table discord_message, in insertion order
    audit        \* table discord_message_log, in insertion order

\* The sqlite tables.
storeVars == <<convs>>
\* The callers of the store and of the normalization.
sideVars == <<calls, norm, applied>>
\* The message handlers and the tables only they write.
msgVars == <<msgs, turns, audit>>

vars == <<BOT_STATE, BOT_CLIENT, BOT_TASK, BOT_CONFIG, tasks, clients, reqs,
          ready, closeJoins, gateway, convs, calls, norm, applied, msgs, turns, audit>>

\* The mutable state the handlers work on, as one value: a handler's code
\* between two awaits is a composition of functions on it.
World ==
    [state |-> BOT_STATE, client |-> BOT_CLIENT, task |-> BOT_TASK,
     config |-> BOT_CONFIG, tasks |-> tasks, clients |-> clients,
     reqs |-> reqs, ready |-> ready, convs |-> convs,
     msgs |-> msgs, turns |-> turns, audit |-> audit]

Commit(w) ==
    /\ BOT_STATE'  = w.state
    /\ BOT_CLIENT' = w.client
    /\ BOT_TASK'   = w.task
    /\ BOT_CONFIG' = w.config
    /\ tasks'      = w.tasks
    /\ clients'    = w.clients
    /\ reqs'       = w.reqs
    /\ ready'      = w.ready
    /\ convs'      = w.convs
    /\ msgs'       = w.msgs
    /\ turns'      = w.turns
    /\ audit'      = w.audit

ReqItem(r)  == [k |-> "req", id |-> r]
TaskItem(t) == [k |-> "task", id |-> t]
ReadyItem(t) == [k |-> "on_ready", id |-> t]
DisconnectItem(t) == [k |-> "on_disconnect", id |-> t]

NoTask ==
    [st |-> "none", token |-> None, wake |-> "none", cause |-> "none",
     result |-> "none", waiters |-> <<>>]
NoClient == [st |-> "none", waiters |-> <<>>]
NoReq ==
    [kind |-> "none", token |-> None, payload |-> EmptyDict, pc |-> "idle",
     old |-> 0, awaits |-> 0, launched |-> 0, noop |-> FALSE, raised |-> "none",
     solo |-> TRUE]

\* asyncio.Task.done()
TaskDone(w, t) == w.tasks[t].st = "done"
\* A task that was created and has not reached a terminal state.
Alive(t) == tasks[t].st \in {"pending", "running", "closing"}

(* ------------------------- library: Client.close ----------------------- *)
\* `who` awaits clients[c].close().  The first caller on an open client
\* starts the network teardown and is suspended until it completes.  A later
\* caller returns at once when the teardown is over; while it is in progress
\* it returns at once (library flag closeJoins = FALSE) or waits for it.
CloseSuspends(w, c) ==
    \/ w.clients[c].st = "open"
    \/ w.clients[c].st = "closing" /\ closeJoins

CallClose(w, c, who) ==
    IF CloseSuspends(w, c)
    THEN [w EXCEPT !.clients[c] =
             [st |-> "closing", waiters |-> Append(@.waiters, who)]]
    ELSE w

(* ------------------------- library: asyncio.Task ----------------------- *)
\* The task reaches a terminal state: its waiters are scheduled, in the
\* order in which they started to wait.
FinishTask(w, t, result) ==
    [w EXCEPT !.tasks[t] = [@ EXCEPT !.st = "done", !.result = result,
                                     !.wake = "none", !.waiters = <<>>],
              !.ready = @ \o [i \in 1..Len(w.tasks[t].waiters) |->
                                 ReqItem(w.tasks[t].waiters[i])]]

\* Task.cancel() on a task that is not done: a CancelledError is thrown into
\* the task at its next step, which is scheduled unless it already is.  A task
\* suspended in Client.close() has that await cancelled: the teardown is
\* abandoned and everyone waiting for it is scheduled.
CancelTask(w, t) ==
    IF w.tasks[t].st = "closing" /\ w.tasks[t].wake = "none"
    THEN [w EXCEPT !.tasks[t].wake = "cancel",
                   !.clients[t] = [st |-> "closed", waiters |-> <<>>],
                   !.ready = @ \o w.clients[t].waiters]
    ELSE [w EXCEPT !.tasks[t].wake = "cancel",
                   !.ready = IF w.tasks[t].wake = "none" /\ w.tasks[t].st # "pending"
                             THEN Append(@, TaskItem(t)) ELSE @]

(* ------------------------------ start_bot ------------------------------ *)
\* The tail of start_bot: replace the configuration, reset the runtime
\* state, create the session task.
start_bot_launch(w, r) ==
    LET t == Cardinality({x \in TaskIds : w.tasks[x].st # "none"}) + 1
    IN [w EXCEPT
          !.config = start_bot_config(w.reqs[r].token, w.reqs[r].payload),
          !.state  = [enabled |-> TRUE, connected |-> FALSE, last_error |-> None],
          !.tasks[t] = [NoTask EXCEPT !.st = "pending", !.token = w.reqs[r].token],
          !.ready  = Append(@, TaskItem(t)),
          !.task   = t,
          !.reqs[r] = [@ EXCEPT !.pc = "done", !.launched = t]]

(* ------------------------------ stop_bot ------------------------------- *)
\* After the await of the task (or when there is nothing to await): clear the
\* two globals; a stop_bot called by start_bot returns into it.
stop_bot_finish(w, r) ==
    LET w1 == [w EXCEPT !.task = 0, !.client = 0]
    IN IF w.reqs[r].kind = "start"
       THEN start_bot_launch(w1, r)
       ELSE [w1 EXCEPT !.reqs[r].pc = "done"]

\* A stop_bot that cancels the task and goes on without awaiting it.
stop_bot_cancel_no_await(w, r) ==
    IF w.task # 0 /\ ~TaskDone(w, w.task)
    THEN stop_bot_finish(CancelTask(w, w.task), r)
    ELSE stop_bot_finish(w, r)

\* if BOT_TASK and not BOT_TASK.done(): cancel it and await it.
stop_bot_cancel(w, r) ==
    IF w.task # 0 /\ ~TaskDone(w, w.task)
    THEN LET w1 == CancelTask(w, w.task)
         IN [w1 EXCEPT !.tasks[w.task].waiters = Append(@, r),
                       !.reqs[r] = [@ EXCEPT !.pc = "task_wait", !.awaits = w.task]]
    ELSE stop_bot_finish(w, r)

\* The head of stop_bot, up to the first await that suspends.
stop_bot(w, r) ==
    LET w1 == [w EXCEPT !.state.enabled = FALSE, !.state.connected = FALSE,
                        !.reqs[r].old = w.task]
    IN IF w1.client # 0
       THEN IF CloseSuspends(w1, w1.client)
            THEN [CallClose(w1, w1.client, ReqItem(r)) EXCEPT !.reqs[r].pc = "close_wait"]
            ELSE stop_bot_cancel(w1, r)
       ELSE stop_bot_cancel(w1, r)

\* What `await BOT_TASK` raises in the awaiting coroutine.
AwaitRaises(result) == IF result = "cancelled" THEN "CancelledError" ELSE "none"

\* A try/except that has `except Exception` only: CancelledError is no
\* Exception and gets through.
stop_bot_except_exception_only(exc) == exc

\* The try/except around `await BOT_TASK`: what it lets through to the caller
\* (except asyncio.CancelledError: pass / except Exception: pass).
stop_bot_except(exc) == "none"

\* stop_bot resumed after one of its awaits.
stop_bot_resume(w, r) ==
    IF w.reqs[r].pc = "close_wait"
    THEN stop_bot_cancel(w, r)
    ELSE LET exc == stop_bot_except(AwaitRaises(w.tasks[w.reqs[r].awaits].result))
         IN IF exc = "none"
            THEN stop_bot_finish(w, r)
            ELSE [w EXCEPT !.reqs[r] = [@ EXCEPT !.pc = "done", !.raised = exc]]

\* A start_bot without the same-token return: it restarts a live session.
start_bot_always_restart(w, r) ==
    IF w.task # 0 /\ ~TaskDone(w, w.task)
    THEN stop_bot(w, r)
    ELSE start_bot_launch(w, r)

\* The head of start_bot.
\* A start that takes a same-credential request for a no-op even when the
\* session task has ended.
start_bot_noop_on_dead_task(w, r) ==
    IF w.task # 0 /\ GetStr(w.config, "token") = w.reqs[r].token
    THEN [w EXCEPT !.state.enabled = TRUE,
                   !.reqs[r] = [@ EXCEPT !.pc = "done", !.noop = TRUE]]
    ELSE IF w.task # 0 /\ ~TaskDone(w, w.task)
    THEN stop_bot(w, r)
    ELSE start_bot_launch(w, r)

start_bot(w, r) ==
    IF w.task # 0 /\ ~TaskDone(w, w.task)
    THEN IF GetStr(w.config, "token") = w.reqs[r].token
         THEN [w EXCEPT !.state.enabled = TRUE,
                        !.reqs[r] = [@ EXCEPT !.pc = "done", !.noop = TRUE]]
         ELSE stop_bot(w, r)
    ELSE start_bot_launch(w, r)

(* ------------------------------ _run_bot ------------------------------- *)
\* How the task ends once its finally clause is through.
ResultOf(cause) == IF cause = "cancel" THEN "cancelled" ELSE "finished"

\* A failure of the session that is recorded without touching connected.
_run_bot_except_keeps_connected(w, wake) ==
    IF wake = "exc" THEN [w EXCEPT !.state.last_error = "start failed"] ELSE w

\* except Exception around client.start(token): a failure of the session is
\* recorded; a normal return and a CancelledError pass by.
_run_bot_except(w, wake) ==
    IF wake = "exc"
    THEN [w EXCEPT !.state.connected = FALSE, !.state.last_error = "start failed"]
    ELSE w

\* One step of the session task, from the head of the ready queue up to its
\* next suspending await.
_run_bot(w, t) ==
    LET tk == w.tasks[t]
    IN CASE tk.st = "pending" ->
              IF tk.wake = "cancel"
              THEN FinishTask(w, t, "cancelled")
              ELSE [w EXCEPT !.clients[t] = [st |-> "open", waiters |-> <<>>],
                             !.client = t,
                             !.tasks[t].st = "running"]
         [] tk.st = "running" ->
              LET w1 == [_run_bot_except(w, tk.wake) EXCEPT !.tasks[t].cause = tk.wake,
                                                         !.tasks[t].wake = "none"]
              IN IF CloseSuspends(w1, t)
                 THEN [CallClose(w1, t, TaskItem(t)) EXCEPT !.tasks[t].st = "closing"]
                 ELSE FinishTask(w1, t, ResultOf(tk.wake))
         [] tk.st = "closing" ->
              FinishTask(w, t, IF tk.wake = "cancel" THEN "cancelled"
                               ELSE ResultOf(tk.cause))
         [] OTHER -> w

\* on_ready
on_ready(w) ==
    [w EXCEPT !.state.connected = TRUE, !.state.last_error = None]

\* on_disconnect
on_disconnect(w) ==
    [w EXCEPT !.state.connected = FALSE]

(* _handle_message *)
\* except Exception as exc (line 326): the failure is recorded.
_handle_message_except(w, m, stage, exc) ==
    [w EXCEPT !.state.last_error = exc,
              !.msgs[m] = [@ EXCEPT !.pc = "done", !.outcome = "caught",
                                    !.failed = stage, !.error = exc, !.wake = NoWake]]

\* An exception raised before line 249 leaves _handle_message and on_message:
\* the library hands it to on_error, which writes a log line.
_handle_message_raises(w, m, stage, exc) ==
    [w EXCEPT !.msgs[m] = [@ EXCEPT !.pc = "done", !.outcome = "escaped",
                                    !.failed = stage, !.error = exc, !.wake = NoWake]]

\* The call of post_discord_message: its arguments are read from BOT_CONFIG
\* when the call is made; the handler is suspended until the relay answers.
post_discord_message(w, m, pc) ==
    [w EXCEPT !.msgs[m] =
        [@ EXCEPT !.pc = pc, !.wake = NoWake,
                  !.posts = Append(@, [auth_token |-> OrStr(GetStr(w.config, "auth_token"), None),
                                       text |-> w.msgs[m].text])]]

\* Lines 314-325: the audit row.
_handle_message_log(w, m, f) ==
    IF f.audit
    THEN _handle_message_except(w, m, "audit", StoreError)
    ELSE [w EXCEPT !.audit = Append(@, [message_id |-> MessageId[m],
                                        prompt |-> w.msgs[m].text,
                                        response |-> OrStr(w.msgs[m].reply, "")]),
                   !.msgs[m] = [@ EXCEPT !.pc = "done", !.outcome = "ok",
                                         !.wake = NoWake]]

\* An insert of the assistant turn whose failure is not caught on the spot.
_handle_message_store_raises(w, m, f) ==
    IF f.insert
    THEN _handle_message_except([w EXCEPT !.msgs[m].lost = @ \cup {"assistant"}],
                                m, "insert", StoreError)
    ELSE _handle_message_log(
            [w EXCEPT !.turns = insert_message(@, utcnow(@), w.msgs[m].conv, "assistant",
                                               OrStr(w.msgs[m].reply, ""), MessageId[m])],
            m, f)

\* Lines 300-325: the assistant turn (a failure is logged only: the turn is
\* lost), then the audit row.
_handle_message_store(w, m, f) ==
    _handle_message_log(
        IF f.insert
        THEN [w EXCEPT !.msgs[m].lost = @ \cup {"assistant"}]
        ELSE [w EXCEPT !.turns = insert_message(@, utcnow(@), w.msgs[m].conv, "assistant",
                                                OrStr(w.msgs[m].reply, ""), MessageId[m])],
        m, f)

\* A reply sent as one message, whatever its length.
Chunks_whole(n) == <<[lo |-> 0, hi |-> n]>>

\* [reply_text[i:i + 1900] for i in range(0, len(reply_text), 1900)] for a
\* reply of length n: the chunk reply_text[lo:hi] is written [lo, hi].
Chunks(n) ==
    [k \in 1..((n + ChunkSize - 1) \div ChunkSize) |->
        [lo |-> (k - 1) * ChunkSize, hi |-> Min(k * ChunkSize, n)]]

\* Lines 284-299: the reply of the relay is sent, chunk after chunk; the send
\* of a chunk suspends the handler.
_handle_message_reply(w, m, reply, f) ==
    LET w1 == [w EXCEPT !.msgs[m].reply = reply]
    IN IF OrStr(reply, "") # ""
       THEN [w1 EXCEPT !.msgs[m] = [@ EXCEPT !.pc = "send_wait", !.wake = NoWake,
                                             !.chunks = Chunks(TextLen[reply])]]
       ELSE _handle_message_store(w1, m, f)

\* The handler is resumed with the result of the I/O it awaits.
_handle_message_resume(w, m, f) ==
    LET h  == w.msgs[m]
        wk == h.wake
    IN CASE h.pc = "post_wait" ->
              IF wk.ok
              THEN _handle_message_reply(w, m, wk.reply, f)
              ELSE IF Contains401(wk.exc) /\ _refresh_auth_token_ready(w.config)
                   THEN [w EXCEPT !.msgs[m] = [@ EXCEPT !.pc = "refresh_wait",
                                                        !.wake = NoWake,
                                                        !.refreshes = @ + 1,
                                                        !.first = wk.exc]]
                   ELSE _handle_message_except(w, m, "relay", wk.exc)
         [] h.pc = "refresh_wait" ->
              IF wk.ok
              THEN LET w1 == [w EXCEPT !.config = _refresh_auth_token_store(@, wk),
                                       !.msgs[m].refreshed = wk.access]
                   IN IF _refresh_auth_token_return(wk)
                      THEN post_discord_message(w1, m, "retry_wait")
                      ELSE _handle_message_except(w1, m, "relay", h.first)
              ELSE _handle_message_except(w, m, "relay", h.first)
         [] h.pc = "retry_wait" ->
              IF wk.ok
              THEN _handle_message_reply(w, m, wk.reply, f)
              ELSE _handle_message_except(w, m, "relay", wk.exc)
         [] h.pc = "send_wait" ->
              IF wk.ok
              THEN LET w1 == [w EXCEPT !.msgs[m] = [@ EXCEPT !.sent = Append(@, [channel |-> h.event.channel,
                                                                                 lo |-> Head(h.chunks).lo,
                                                                                 hi |-> Head(h.chunks).hi]),
                                                             !.chunks = Tail(@),
                                                             !.wake = NoWake]]
                   IN IF Tail(h.chunks) # <<>> THEN w1 ELSE _handle_message_store(w1, m, f)
              ELSE _handle_message_except(w, m, "send", SendError)

\* Lines 233-273: the payload, the user turn (a failure is logged only), the
\* call of the relay.
_handle_message_post(w, m, content, f, got, chat_history) ==
    post_discord_message(
        [w EXCEPT !.convs = got.convs,
                  !.turns = IF f.insert THEN @
                            ELSE insert_message(@, utcnow(@), got.id, "user", content, MessageId[m]),
                  !.msgs[m] = [@ EXCEPT !.conv = got.id, !.text = content,
                                        !.history = chat_history,
                                        !.lost = IF f.insert THEN {"user"} ELSE {}]],
        m, "post_wait")

\* Lines 223-231: the history read, for the conversation `got`.
_handle_message_history(w, m, content, f, got, history_enabled, history_max_turns, history_max_age) ==
    IF history_enabled /\ f.history
    THEN _handle_message_raises([w EXCEPT !.convs = got.convs, !.msgs[m].conv = got.id],
                                m, "history", StoreError)
    ELSE _handle_message_post(w, m, content, f, got,
            IF history_enabled
            THEN get_recent_history(w.turns, utcnow(w.turns), got.id,
                                    history_max_turns, history_max_age)
            ELSE <<>>)

\* Lines 190-222, for an admitted message with cleaned text `content`.
_handle_message_accepted(w, m, content, f) ==
    LET ev  == w.msgs[m].event
        cfg == w.config
        user_id              == OrStr(GetStr(cfg, "user_id"), BRAINDRIVE_USER_ID)
        target_user_id       == OrStr(GetStr(cfg, "target_user_id"), None)
        settings_instance_id == OrStr(GetStr(cfg, "settings_instance_id"), None)
        history_cfg          == _history_settings(cfg)
        history_enabled      == GetBool(history_cfg, "enabled", TRUE)
        history_scope        == OrStr(GetStr(history_cfg, "scope"),
                                      OrStr(GetStr(history_cfg, "history_scope"), "channel"))
        history_max_turns    == IF "max_turns" \in DOMAIN history_cfg
                                THEN history_cfg["max_turns"]
                                ELSE IF "max_history_turns" \in DOMAIN history_cfg
                                THEN history_cfg["max_history_turns"]
                                ELSE PyInt(DefaultMaxTurns)
        history_max_age      == IF "max_age_minutes" \in DOMAIN history_cfg
                                THEN history_cfg["max_age_minutes"]
                                ELSE IF "max_history_age_minutes" \in DOMAIN history_cfg
                                THEN history_cfg["max_history_age_minutes"]
                                ELSE PyInt(DefaultMaxAge)
    IN IF f.lookup
       THEN _handle_message_raises(w, m, "lookup", StoreError)
       ELSE _handle_message_history(w, m, content, f,
               get_or_create_conversation(w.convs, 0,
                  [user_id |-> OrStr(target_user_id, user_id),
                   discord_user_id |-> ev.author, discord_username |-> "n1",
                   guild_id |-> ev.guild, channel_id |-> ev.channel,
                   settings_instance_id |-> settings_instance_id,
                   scope |-> history_scope]),
               history_enabled, history_max_turns, history_max_age)

\* A filter that lets the messages of bots through.
_handle_message_ignores_no_bot_check(ev, client, mention_only, guild_allowlist, channel_allowlist) ==
    \/ client = 0
    \/ mention_only /\ ~ev.mentioned
    \/ guild_allowlist # {} /\ ev.guild # None /\ ev.guild \notin guild_allowlist
    \/ channel_allowlist # {} /\ ev.channel \notin channel_allowlist

\* A filter that applies the guild allowlist to the messages without guild too.
_handle_message_ignores_guild_on_dm(ev, client, mention_only, guild_allowlist, channel_allowlist) ==
    \/ ev.bot
    \/ client = 0
    \/ mention_only /\ ~ev.mentioned
    \/ guild_allowlist # {} /\ ev.guild \notin guild_allowlist
    \/ channel_allowlist # {} /\ ev.channel \notin channel_allowlist

\* Lines 157-177: the early returns on the author, the mention, the allowlists.
_handle_message_ignores(ev, client, mention_only, guild_allowlist, channel_allowlist) ==
    \/ ev.bot
    \/ client = 0
    \/ mention_only /\ ~ev.mentioned
    \/ guild_allowlist # {} /\ ev.guild # None /\ ev.guild \notin guild_allowlist
    \/ channel_allowlist # {} /\ ev.channel \notin channel_allowlist

\* A cleanup that removes the raw mention form only.
_handle_message_content_raw_only(ev, mention_only) ==
    IF mention_only
    THEN Unspell(RStrip(LStrip(Remove(Spell[ev.content],
                                      <<"<", "@">> \o Spell[BotUserId] \o <<">">>))))
    ELSE ev.content

\* Lines 179-183: the text of the message.
_handle_message_content(ev, mention_only) ==
    IF mention_only
    THEN Unspell(RStrip(LStrip(RemoveMention(Spell[ev.content]))))
    ELSE ev.content

\* A handler that records the rejection of a message as the last error.
_handle_message_records_rejection(w, m, f) ==
    LET ev  == w.msgs[m].event
        cfg == w.config
        mention_only      == GetBool(cfg, "mention_only", TRUE)
        guild_allowlist   == SetOf(_string_list(GetList(cfg, "guild_allowlist")))
        channel_allowlist == SetOf(_string_list(GetList(cfg, "channel_allowlist")))
    IN IF \/ _handle_message_ignores(ev, w.client, mention_only, guild_allowlist, channel_allowlist)
          \/ _handle_message_content(ev, mention_only) = ""
       THEN [w EXCEPT !.state.last_error = "ignored",
                      !.msgs[m] = [@ EXCEPT !.pc = "done", !.outcome = "rejected"]]
       ELSE _handle_message_accepted(w, m, _handle_message_content(ev, mention_only), f)

\* Lines 157-186: the admission of the message, then its handling up to the
\* first await.
_handle_message(w, m, f) ==
    LET ev  == w.msgs[m].event
        cfg == w.config
        mention_only      == GetBool(cfg, "mention_only", TRUE)
        guild_allowlist   == SetOf(_string_list(GetList(cfg, "guild_allowlist")))
        channel_allowlist == SetOf(_string_list(GetList(cfg, "channel_allowlist")))
    IN IF _handle_message_ignores(ev, w.client, mention_only, guild_allowlist, channel_allowlist)
       THEN [w EXCEPT !.msgs[m] = [@ EXCEPT !.pc = "done", !.outcome = "rejected"]]
       ELSE IF _handle_message_content(ev, mention_only) = ""
       THEN [w EXCEPT !.msgs[m] = [@ EXCEPT !.pc = "done", !.outcome = "rejected"]]
       ELSE _handle_message_accepted(w, m, _handle_message_content(ev, mention_only), f)


(* ------------------------------- actions ------------------------------- *)
Popped == [World EXCEPT !.ready = Tail(@)]
AtHead(item) == ready # <<>> /\ Head(ready) = item
NextReq(r) == reqs[r].pc = "idle" /\ \A q \in ReqIds : q < r => reqs[q].pc # "idle"
\* A request is in flight from its arrival to the return of its handler.
InFlight(r) == reqs[r].pc \notin {"idle", "done"}
\* Bookkeeping for the properties: a request is solo when no other request
\* is in flight at any time while it is.
Arrive(r, new) ==
    [q \in ReqIds |->
        IF q = r THEN [new EXCEPT !.solo = \A x \in ReqIds : ~InFlight(x)]
        ELSE IF InFlight(q) THEN [reqs[q] EXCEPT !.solo = FALSE]
        ELSE reqs[q]]

\* POST /bot/connect arrives with a token: its handler is scheduled.
Connect(r, tok, p) ==
    /\ NextReq(r)
    /\ reqs' = Arrive(r, [NoReq EXCEPT !.kind = "start", !.token = tok,
                                     !.payload = p, !.pc = "queued"])
    /\ ready' = Append(ready, ReqItem(r))
    /\ UNCHANGED <<BOT_STATE, BOT_CLIENT, BOT_TASK, BOT_CONFIG, tasks, clients,
                   closeJoins, gateway>>
    /\ UNCHANGED <<storeVars, sideVars, msgVars>>

\* POST /bot/disconnect arrives: its handler is scheduled.
Disconnect(r) ==
    /\ NextReq(r)
    /\ reqs' = Arrive(r, [NoReq EXCEPT !.kind = "stop", !.pc = "queued"])
    /\ ready' = Append(ready, ReqItem(r))
    /\ UNCHANGED <<BOT_STATE, BOT_CLIENT, BOT_TASK, BOT_CONFIG, tasks, clients,
                   closeJoins, gateway>>
    /\ UNCHANGED <<storeVars, sideVars, msgVars>>

\* bot_connect runs start_bot up to its first suspending await.
bot_connect(r) ==
    /\ AtHead(ReqItem(r))
    /\ reqs[r].kind = "start" /\ reqs[r].pc = "queued"
    /\ Commit(start_bot(Popped, r))
    /\ UNCHANGED <<closeJoins, gateway, sideVars>>

\* bot_disconnect runs stop_bot up to its first suspending await.
bot_disconnect(r) ==
    /\ AtHead(ReqItem(r))
    /\ reqs[r].kind = "stop" /\ reqs[r].pc = "queued"
    /\ Commit(stop_bot(Popped, r))
    /\ UNCHANGED <<closeJoins, gateway, sideVars>>

\* A suspended stop_bot (called by either handler) is resumed.
StopBotContinue(r) ==
    /\ AtHead(ReqItem(r))
    /\ reqs[r].pc \in {"close_wait", "task_wait"}
    /\ Commit(stop_bot_resume(Popped, r))
    /\ UNCHANGED <<closeJoins, gateway, sideVars>>

\* The session task runs one step.
RunBot(t) ==
    /\ AtHead(TaskItem(t))
    /\ Commit(_run_bot(Popped, t))
    /\ UNCHANGED <<closeJoins, gateway, sideVars>>

\* The callbacks registered on the client, run as tasks of their own.
OnReady(t) ==
    /\ AtHead(ReadyItem(t))
    /\ Commit(on_ready(Popped))
    /\ UNCHANGED <<closeJoins, gateway, sideVars>>

OnDisconnect(t) ==
    /\ AtHead(DisconnectItem(t))
    /\ Commit(on_disconnect(Popped))
    /\ UNCHANGED <<closeJoins, gateway, sideVars>>

\* The session of task t is awaiting inside client.start(token).
InSession(t) == tasks[t].st = "running" /\ tasks[t].wake = "none"

\* The gateway reports the session established: on_ready is dispatched.
GatewayReady(t) ==
    /\ InSession(t) /\ clients[t].st = "open"
    /\ gateway < MaxGateway
    /\ gateway' = gateway + 1
    /\ ready' = Append(ready, ReadyItem(t))
    /\ UNCHANGED <<BOT_STATE, BOT_CLIENT, BOT_TASK, BOT_CONFIG, tasks, clients,
                   reqs, closeJoins>>
    /\ UNCHANGED <<storeVars, sideVars, msgVars>>

\* The websocket drops (or is being closed): on_disconnect is dispatched.
GatewayDisconnect(t) ==
    /\ InSession(t)
    /\ gateway < MaxGateway
    /\ gateway' = gateway + 1
    /\ ready' = Append(ready, DisconnectItem(t))
    /\ UNCHANGED <<BOT_STATE, BOT_CLIENT, BOT_TASK, BOT_CONFIG, tasks, clients,
                   reqs, closeJoins>>
    /\ UNCHANGED <<storeVars, sideVars, msgVars>>

\* client.start(token) raises (login refused, connection lost for good).
SessionFails(t) ==
    /\ InSession(t) /\ clients[t].st = "open"
    /\ gateway < MaxGateway
    /\ gateway' = gateway + 1
    /\ tasks' = [tasks EXCEPT ![t].wake = "exc"]
    /\ ready' = Append(ready, TaskItem(t))
    /\ UNCHANGED <<BOT_STATE, BOT_CLIENT, BOT_TASK, BOT_CONFIG, clients, reqs,
                   closeJoins>>
    /\ UNCHANGED <<storeVars, sideVars, msgVars>>

\* client.start(token) returns because the client was closed.
SessionReturns(t) ==
    /\ InSession(t) /\ clients[t].st \in {"closing", "closed"}
    /\ tasks' = [tasks EXCEPT ![t].wake = "ret"]
    /\ ready' = Append(ready, TaskItem(t))
    /\ UNCHANGED <<BOT_STATE, BOT_CLIENT, BOT_TASK, BOT_CONFIG, clients, reqs,
                   closeJoins, gateway>>
    /\ UNCHANGED <<storeVars, sideVars, msgVars>>

\* The network teardown of a client completes: whoever awaits it is scheduled.
CloseDone(c) ==
    /\ clients[c].st = "closing"
    /\ clients' = [clients EXCEPT ![c] = [st |-> "closed", waiters |-> <<>>]]
    /\ ready' = ready \o clients[c].waiters
    /\ tasks' = [t \in TaskIds |->
                    IF \E i \in 1..Len(clients[c].waiters) : clients[c].waiters[i] = TaskItem(t)
                    THEN [tasks[t] EXCEPT !.wake = "io"] ELSE tasks[t]]
    /\ UNCHANGED <<BOT_STATE, BOT_CLIENT, BOT_TASK, BOT_CONFIG, reqs, closeJoins,
                   gateway>>
    /\ UNCHANGED <<storeVars, sideVars, msgVars>>

(* ------------------------- the message handlers ------------------------ *)
NextMsg(m) == msgs[m].pc = "idle" /\ \A j \in MsgIds : j < m => msgs[j].pc # "idle"
Awaiting(m, pcs) == msgs[m].pc \in pcs /\ msgs[m].wake = NoWake

\* The gateway delivers a message to the client of a running session:
\* on_message is dispatched as a task of its own.
GatewayMessage(m, ev) ==
    /\ NextMsg(m)
    /\ \E t \in TaskIds : InSession(t) /\ clients[t].st = "open"
    /\ msgs' = [msgs EXCEPT ![m] = [NoMsg EXCEPT !.pc = "queued", !.event = ev]]
    /\ ready' = Append(ready, MsgItem(m))
    /\ UNCHANGED <<BOT_STATE, BOT_CLIENT, BOT_TASK, BOT_CONFIG, tasks, clients,
                   reqs, closeJoins, gateway, turns, audit>>
    /\ UNCHANGED <<storeVars, sideVars>>

\* on_message runs _handle_message up to its first await.
OnMessage(m) ==
    /\ AtHead(MsgItem(m))
    /\ msgs[m].pc = "queued"
    /\ \E f \in FaultsBefore : Commit(_handle_message(Popped, m, f))
    /\ UNCHANGED <<closeJoins, gateway, sideVars>>

\* A suspended _handle_message is resumed and runs up to its next await.
HandleMessageContinue(m) ==
    /\ AtHead(MsgItem(m))
    /\ msgs[m].pc \in {"post_wait", "refresh_wait", "retry_wait", "send_wait"}
    /\ \E f \in FaultsAfter : Commit(_handle_message_resume(Popped, m, f))
    /\ UNCHANGED <<closeJoins, gateway, sideVars>>

Wake(m, res) ==
    /\ msgs' = [msgs EXCEPT ![m].wake = res]
    /\ ready' = Append(ready, MsgItem(m))
    /\ UNCHANGED <<BOT_STATE, BOT_CLIENT, BOT_TASK, BOT_CONFIG, tasks, clients,
                   reqs, closeJoins, gateway, turns, audit>>
    /\ UNCHANGED <<storeVars, sideVars>>

\* The relay answers the POST of the message, or the POST fails.
RelayResponds(m, res) ==
    /\ Awaiting(m, {"post_wait", "retry_wait"})
    /\ Wake(m, res)

\* The refresh endpoint answers, or the call fails.
RefreshResponds(m, res) ==
    /\ Awaiting(m, {"refresh_wait"})
    /\ Wake(m, res)

\* channel.send of the next chunk completes or fails.
SendCompletes(m, res) ==
    /\ Awaiting(m, {"send_wait"})
    /\ Wake(m, res)

(* ------------------- callers of the Conversation Store ----------------- *)
CallItem(i) == [k |-> "call", id |-> i]

\* The arguments _handle_message passes to get_or_create_conversation.
DbArgs ==
    [user_id : {"u0"}, discord_user_id : {"d1", "d2"},
     discord_username : {"n1"}, guild_id : {None, "g1"},
     channel_id : {"c1", "c2"}, settings_instance_id : {"s1"},
     scope : {"channel", "guild", "dm"}]

NoCall ==
    [pc |-> "idle", args |-> EmptyDict, ret |-> 0, overlapped |-> FALSE]

\* A message handler is about to call the store: its step is scheduled.
IssueCall(i, a) ==
    /\ calls[i].pc = "idle" /\ \A j \in CallIds : j < i => calls[j].pc # "idle"
    /\ calls' = [calls EXCEPT ![i] =
                   [pc |-> "queued", args |-> a, ret |-> 0,
                    overlapped |-> \E j \in CallIds : calls[j].pc = "queued"]]
    /\ ready' = Append(ready, CallItem(i))
    /\ UNCHANGED <<BOT_STATE, BOT_CLIENT, BOT_TASK, BOT_CONFIG, tasks, clients,
                   reqs, closeJoins, gateway, convs, norm, applied, msgVars>>

\* The handler's step runs the whole of get_or_create_conversation.
RunCall(i) ==
    /\ AtHead(CallItem(i))
    /\ LET r == get_or_create_conversation(convs, 0, calls[i].args)
       IN /\ convs' = r.convs
          /\ calls' = [calls EXCEPT ![i].pc = "done", ![i].ret = r.id]
    /\ ready' = Tail(ready)
    /\ UNCHANGED <<BOT_STATE, BOT_CLIENT, BOT_TASK, BOT_CONFIG, tasks, clients,
                   reqs, closeJoins, gateway, norm, applied, msgVars>>

(* --------------------- scope normalization, applied -------------------- *)
ScopeInputs    == {None, "", " ", "channel", "guild", "dm", "DM", " Guild ", "thread"}
GuildInputs    == {None, "", " ", "g1", " g1"}
ChannelInputs  == {None, "", "c1", "c1 "}
SettingsInputs == {None, "s1"}

NoNorm == [pc |-> "idle", in |-> <<>>, out |-> <<>>, again |-> <<>>]

\* The function is applied to an input, and once more to its own result.
Normalize ==
    /\ norm.pc = "input"
    /\ LET out == _conversation_scope_values(norm.in[1], norm.in[2], norm.in[3], norm.in[4])
       IN norm' = [norm EXCEPT !.pc = "done", !.out = out,
                               !.again = _conversation_scope_values(out[1], out[2], out[3], out[4])]
    /\ UNCHANGED <<BOT_STATE, BOT_CLIENT, BOT_TASK, BOT_CONFIG, tasks, clients,
                   reqs, ready, closeJoins, gateway, convs, calls, applied, msgVars>>

(* ----------------------- client.py: build_message_payload ------------- *)
RequiredKeys == {"user_id", "guild_id", "channel_id", "message_id", "text"}
\* The keys of lines 33-48, in the order of the tests.
OptionalKeys ==
    <<"target_user_id", "settings_instance_id", "service_secret", "rag_collection_id",
      "model", "persona_id", "config", "chat_history">>

\* A payload that carries every argument.
build_message_payload_all_keys(kw) == kw

\* Lines 33-48: if <value>: payload[<key>] = <value>
RECURSIVE build_message_payload_optional(_, _, _)
build_message_payload_optional(payload, kw, keys) ==
    IF keys = <<>>
    THEN payload
    ELSE build_message_payload_optional(
            IF Truthy(kw[Head(keys)]) THEN SetKey(payload, Head(keys), kw[Head(keys)])
            ELSE payload,
            kw, Tail(keys))

\* build_message_payload(**kw)
build_message_payload(kw) ==
    build_message_payload_optional([k \in RequiredKeys |-> kw[k]], kw, OptionalKeys)

(* ------------------------ functions applied to inputs ------------------ *)
NoApplied == [pc |-> "idle", fn |-> "", in |-> EmptyDict, out |-> <<>>]

\* The arguments of build_message_payload, of the declared types.
OptionalStr == {PyNone, PyStr(""), PyStr("x")}
PayloadArgs ==
    [user_id : {PyStr(""), PyStr("u0")}, guild_id : {PyNone, PyStr("g1")},
     channel_id : {PyStr("c1")}, message_id : {PyStr("m1")}, text : {PyStr("hi")},
     target_user_id : OptionalStr, settings_instance_id : OptionalStr,
     service_secret : OptionalStr, rag_collection_id : OptionalStr,
     model : OptionalStr, persona_id : OptionalStr,
     config : {PyNone, PyDict(EmptyDict), PyDict([temperature |-> "0"])},
     chat_history : {PyNone, PyList(<<>>),
                     PyList(<<[role |-> "user", content |-> "hi"]>>)}]

\* build_message_payload is called.
BuildPayload ==
    /\ applied.pc = "input" /\ applied.fn = "build_message_payload"
    /\ applied' = [applied EXCEPT !.pc = "done", !.out = build_message_payload(applied.in)]
    /\ UNCHANGED <<BOT_STATE, BOT_CLIENT, BOT_TASK, BOT_CONFIG, tasks, clients,
                   reqs, ready, closeJoins, gateway, convs, calls, norm, msgVars>>


TurnRow(conversation_id, role, content, created_at) ==
    [conversation_id |-> conversation_id, role |-> role, content |-> content,
     message_id |-> "m1", created_at |-> created_at]

\* Table discord_message after some handled messages: two conversations, an
\* assistant turn of an empty reply; and a conversation longer than the cap.
ShortTable ==
    <<TurnRow(1, "user", "hi", 10), TurnRow(2, "user", "hi", 20),
      TurnRow(1, "assistant", "", 30), TurnRow(1, "user", "hi", 40),
      TurnRow(1, "assistant", "a long reply", 55)>>
LongTable ==
    [i \in 1..(HistoryCap + 2) |->
        TurnRow(1, IF i % 2 = 1 THEN "user" ELSE "assistant", ToString(i), i)]
HistoryTables == {ShortTable, LongTable}

HistoryArgs ==
    [now : {60, 70},
     conversation_id : {0, 1, 2, 3},
     max_turns : {PyNone, PyInt(-1), PyInt(0), PyInt(1), PyInt(2), PyInt(3),
                  PyInt(HistoryCap), PyInt(HistoryCap + 1), PyInt(HistoryCap + 10),
                  PyStr("many"), PyStr("2"), PyStr("")},
     max_age_minutes : {PyNone, PyInt(0), PyInt(-5), PyInt(10), PyInt(25),
                        PyInt(DefaultMaxAge), PyStr("soon"), PyStr("30")}]

\* get_recent_history is called on the table.
ReadHistory ==
    /\ applied.pc = "input" /\ applied.fn = "get_recent_history"
    /\ applied' = [applied EXCEPT !.pc = "done",
                      !.out = get_recent_history(turns, applied.in.now,
                                                 applied.in.conversation_id,
                                                 applied.in.max_turns,
                                                 applied.in.max_age_minutes)]
    /\ UNCHANGED <<BOT_STATE, BOT_CLIENT, BOT_TASK, BOT_CONFIG, tasks, clients,
                   reqs, ready, closeJoins, gateway, convs, calls, norm, msgVars>>

(* ---------------------------- specifications --------------------------- *)
\* The module globals after import, the sqlite tables after init_db.
InitBase ==
    /\ BOT_STATE = [enabled |-> FALSE, connected |-> FALSE, last_error |-> None]
    /\ BOT_CLIENT = 0
    /\ BOT_TASK = 0
    /\ BOT_CONFIG = EmptyDict
    /\ tasks = [t \in TaskIds |-> NoTask]
    /\ clients = [t \in TaskIds |-> NoClient]
    /\ reqs = [r \in ReqIds |-> NoReq]
    /\ ready = <<>>
    /\ gateway = 0
    /\ convs = <<>>
    /\ calls = [i \in CallIds |-> NoCall]
    /\ msgs = [m \in MsgIds |-> NoMsg]
    /\ audit = <<>>

InitCtl ==
    /\ InitBase
    /\ applied = NoApplied
    /\ turns = <<>>

\* The service after import: nothing started, empty tables.
Init ==
    /\ InitCtl
    /\ closeJoins \in BOOLEAN
    /\ norm = NoNorm

Next ==
    \/ \E r \in ReqIds, tok \in Tokens, p \in Payloads : Connect(r, tok, p)
    \/ \E r \in ReqIds : Disconnect(r)
    \/ \E r \in ReqIds : bot_connect(r)
    \/ \E r \in ReqIds : bot_disconnect(r)
    \/ \E r \in ReqIds : StopBotContinue(r)
    \/ \E t \in TaskIds : RunBot(t)
    \/ \E t \in TaskIds : OnReady(t)
    \/ \E t \in TaskIds : OnDisconnect(t)
    \/ \E t \in TaskIds : GatewayReady(t)
    \/ \E t \in TaskIds : GatewayDisconnect(t)
    \/ \E t \in TaskIds : SessionFails(t)
    \/ \E t \in TaskIds : SessionReturns(t)
    \/ \E c \in TaskIds : CloseDone(c)

\* The lifecycle: control requests, the session task, the gateway callbacks.
Spec == Init /\ [][Next]_vars

\* The Conversation Store under concurrent message handlers.
InitDb == InitCtl /\ closeJoins = FALSE /\ norm = NoNorm
NextDb ==
    \/ \E i \in CallIds, a \in DbArgs : IssueCall(i, a)
    \/ \E i \in CallIds : RunCall(i)
SpecDb == InitDb /\ [][NextDb]_vars

\* _conversation_scope_values on every input of the bounded sets.
InitScope ==
    /\ InitCtl /\ closeJoins = FALSE
    /\ norm \in [pc : {"input"},
                 in : ScopeInputs \X GuildInputs \X ChannelInputs \X SettingsInputs,
                 out : {<<>>}, again : {<<>>}]
NextScope == Normalize
SpecScope == InitScope /\ [][NextScope]_vars

\* get_recent_history on every table and argument of the bounded sets.
InitHist ==
    /\ InitBase /\ closeJoins = FALSE /\ norm = NoNorm
    /\ turns \in HistoryTables
    /\ \E a \in HistoryArgs :
          applied = [pc |-> "input", fn |-> "get_recent_history", in |-> a, out |-> <<>>]
NextHist == ReadHistory
SpecHist == InitHist /\ [][NextHist]_vars

\* build_message_payload on every argument of the bounded sets.
InitPayload ==
    /\ InitBase /\ closeJoins = FALSE /\ norm = NoNorm
    /\ turns = <<>>
    /\ \E kw \in PayloadArgs :
          applied = [pc |-> "input", fn |-> "build_message_payload", in |-> kw, out |-> <<>>]
NextPayload == BuildPayload
SpecPayload == InitPayload /\ [][NextPayload]_vars

\* A session established by connect request 1 with payload p, nothing else
\* in flight: the state in which the gateway delivers messages.
Established(p) ==
    /\ BOT_STATE = [enabled |-> TRUE, connected |-> TRUE, last_error |-> None]
    /\ BOT_CLIENT = 1
    /\ BOT_TASK = 1
    /\ BOT_CONFIG = start_bot_config("tokA", p)
    /\ tasks = [t \in TaskIds |->
                  IF t = 1 THEN [NoTask EXCEPT !.st = "running", !.token = "tokA"]
                  ELSE NoTask]
    /\ clients = [t \in TaskIds |->
                    IF t = 1 THEN [st |-> "open", waiters |-> <<>>] ELSE NoClient]
    /\ reqs = [r \in ReqIds |->
                 IF r = 1
                 THEN [NoReq EXCEPT !.kind = "start", !.token = "tokA", !.payload = p,
                                    !.pc = "done", !.launched = 1]
                 ELSE NoReq]
    /\ ready = <<>>
    /\ gateway = 1

\* The message handlers of an established session.
InitMsg ==
    /\ \E p \in Payloads : Established(p)
    /\ closeJoins = FALSE
    /\ norm = NoNorm
    /\ convs = <<>>
    /\ calls = [i \in CallIds |-> NoCall]
    /\ applied = NoApplied
    /\ msgs = [m \in MsgIds |-> NoMsg]
    /\ turns = <<>>
    /\ audit = <<>>
\* One message, of any kind, delivered to a session of any configuration.
InitOne ==
    /\ \E p \in AllPayloads : Established(p)
    /\ closeJoins = FALSE
    /\ norm = NoNorm
    /\ convs = <<>>
    /\ calls = [i \in CallIds |-> NoCall]
    /\ applied = NoApplied
    /\ msgs = [m \in MsgIds |-> NoMsg]
    /\ turns = <<>>
    /\ audit = <<>>
NextOne ==
    \/ \E ev \in AllEvents : GatewayMessage(1, ev)
    \/ OnMessage(1)
    \/ HandleMessageContinue(1)
    \/ \E res \in AllRelayResults : RelayResponds(1, res)
    \/ \E res \in AllRefreshResults : RefreshResponds(1, res)
    \/ \E res \in SendResults : SendCompletes(1, res)
SpecOne == InitOne /\ [][NextOne]_vars

NextMsgs ==
    \/ \E m \in MsgIds, ev \in Events : GatewayMessage(m, ev)
    \/ \E m \in MsgIds : OnMessage(m)
    \/ \E m \in MsgIds : HandleMessageContinue(m)
    \/ \E m \in MsgIds, res \in RelayResults : RelayResponds(m, res)
    \/ \E m \in MsgIds, res \in RefreshResults : RefreshResponds(m, res)
    \/ \E m \in MsgIds, res \in SendResults : SendCompletes(m, res)
SpecMsg == InitMsg /\ [][NextMsgs]_vars

(* ------------------------------ properties ----------------------------- *)
(* Session lifecycle *)
\* The handler of request r runs its first step.
Handles(r) == reqs[r].pc = "queued" /\ reqs'[r].pc # "queued"
\* Request r creates a session task.
Launches(r) == reqs[r].launched = 0 /\ reqs'[r].launched # 0
\* Request r returns to its caller.
Returns(r) == reqs[r].pc # "done" /\ reqs'[r].pc = "done"
\* The session handles and flags as stop_bot leaves them.
Stopped ==
    /\ BOT_STATE.enabled = FALSE /\ BOT_STATE.connected = FALSE
    /\ BOT_TASK = 0 /\ BOT_CLIENT = 0

\* C1: under any interleaving of start and stop requests at most one session
\* task is alive at any time, and a task that is alive is the one the session
\* handle refers to (no task is left running without a reference).
C1_AtMostOneSession ==
    /\ Cardinality({t \in TaskIds : Alive(t)}) <= 1
    /\ \A t \in TaskIds : Alive(t) => BOT_TASK = t

\* C2: a start whose credential equals the configured one while the session
\* task is alive changes nothing but enabled, which becomes true: the
\* configuration, connected, last-error, the session handles, the tasks and
\* the clients stay as they are, and the request returns at once.
C2_SameTokenNoOp ==
    [][\A r \in ReqIds :
         (/\ Handles(r) /\ reqs[r].kind = "start"
          /\ BOT_TASK # 0 /\ Alive(BOT_TASK)
          /\ GetStr(BOT_CONFIG, "token") = reqs[r].token) =>
            /\ BOT_STATE' = [BOT_STATE EXCEPT !.enabled = TRUE]
            /\ UNCHANGED <<BOT_CONFIG, BOT_TASK, BOT_CLIENT, tasks, clients>>
            /\ reqs'[r].pc = "done"]_vars

\* A same-credential start has returned without taking over its own payload.
C2_Witness ==
    \E r \in ReqIds :
        /\ reqs[r].noop /\ reqs[r].pc = "done"
        /\ GetStr(BOT_CONFIG, "token") = reqs[r].token
        /\ BOT_CONFIG # start_bot_config(reqs[r].token, reqs[r].payload)
        /\ BOT_STATE.enabled /\ BOT_TASK # 0 /\ Alive(BOT_TASK)

C4_StopIdempotent ==
    [][\A r \in ReqIds :
         (Returns(r) /\ reqs[r].kind = "stop" /\ reqs'[r].solo) => Stopped']_vars

RECURSIVE Sum(_)
Sum(q) == IF q = <<>> THEN 0 ELSE (Head(q).hi - Head(q).lo) + Sum(Tail(q))
Error401 == "RuntimeError('BrainDrive request failed: 401')"

\* C6: when the relay call of an event failed with 401 and the refresh
\* returned a new access token, that event has made exactly one refresh call
\* and exactly two relay calls, the second with the new access token; the
\* answer to the second call is final: a reply is the reply that is sent, a
\* failure (a 401 included) ends the handling with no further call and is
\* written to last-error.
C6_RefreshRetryOnce ==
    [][\A m \in MsgIds :
         LET h == msgs[m]
             g == msgs'[m]
         IN /\ (g.refreshed # None /\ g.first = Error401) =>
                 /\ g.refreshes = 1
                 /\ Len(g.posts) = 2
                 /\ g.posts[2].auth_token = g.refreshed
                 /\ g.outcome = "ok" => Sum(g.sent) = TextLen[g.reply]
            /\ (h.pc = "retry_wait" /\ g.pc # "retry_wait" /\ h.first = Error401) =>
                 /\ h.refreshed # None
                 /\ g.posts = h.posts /\ g.refreshes = h.refreshes
                 /\ IF h.wake.ok
                    THEN g.reply = h.wake.reply /\ g.outcome \in {"none", "ok", "caught"}
                    ELSE /\ g.pc = "done" /\ g.outcome = "caught"
                         /\ g.error = h.wake.exc
                         /\ BOT_STATE'.last_error = h.wake.exc
            /\ (h.refreshed # None /\ h.first = Error401 /\ h.pc # "retry_wait") =>
                 (g.posts = h.posts /\ g.refreshes = h.refreshes /\ g.reply = h.reply)]_vars

\* An event was retried with the refreshed token, got 401 again and stopped
\* there, the failure being the last error.
C6_Witness ==
    \E m \in MsgIds :
        /\ msgs[m].pc = "done" /\ msgs[m].outcome = "caught"
        /\ msgs[m].first = Error401
        /\ msgs[m].refreshed = "at1"
        /\ msgs[m].posts[1].auth_token = "at0"
        /\ msgs[m].posts[2].auth_token = "at1"
        /\ msgs[m].error = Error401
        /\ BOT_STATE.last_error = Error401

\* C7: a failure raised while an accepted event is handled (conversation
\* lookup, history read, relay call, reply send, audit log) is caught by the
\* handler and written to last-error, and changes neither enabled nor
\* connected nor the session task.
C7_FailuresRecorded ==
    [][\A m \in MsgIds :
         (msgs[m].failed = "none" /\ msgs'[m].failed # "none") =>
            /\ msgs'[m].outcome = "caught"
            /\ BOT_STATE'.last_error = msgs'[m].error
            /\ BOT_STATE'.enabled = BOT_STATE.enabled
            /\ BOT_STATE'.connected = BOT_STATE.connected
            /\ BOT_TASK' = BOT_TASK /\ tasks' = tasks]_vars

(* Conversation Store *)
Returned(i) == calls[i].pc = "done"
\* The normalized tuple of a call: author, guild, channel, settings, scope-kind.
CallTuple(a) ==
    LET v == <<_normalize_scope(a.scope), _normalize_id(a.guild_id),
               _normalize_id(a.channel_id), _normalize_id(a.settings_instance_id)>>
        n == IF v[1] = "guild" /\ v[2] # "" THEN <<"guild", v[2], "", v[4]>>
             ELSE IF v[1] = "dm" /\ v[2] # "" THEN <<"channel", v[2], v[3], v[4]>>
             ELSE v
    IN <<_normalize_id(a.discord_user_id), n[2], n[3], n[4], n[1]>>
\* The same without the scope-kind.
CallKey(a) == SubSeq(CallTuple(a), 1, 4)
RowTuple(row) ==
    <<row.discord_user_id, row.guild_id, row.channel_id, row.settings_instance_id, row.scope>>
RowKey(row) == SubSeq(RowTuple(row), 1, 4)

\* C8: two calls of get_or_create_conversation with the same normalized tuple,
\* one after the other or both pending at the same time, return the same
\* conversation id, and the table never holds two rows for one tuple.
C8_SameTupleSameId ==
    /\ \A i, j \in CallIds :
          (Returned(i) /\ Returned(j) /\ CallTuple(calls[i].args) = CallTuple(calls[j].args))
             => calls[i].ret = calls[j].ret
    /\ \A x, y \in DOMAIN convs :
          x # y => RowTuple(convs[x]) # RowTuple(convs[y])

\* Two calls with the same tuple were pending together and have both returned.
C8_Witness ==
    \E i, j \in CallIds :
        /\ i # j /\ Returned(i) /\ Returned(j)
        /\ calls[j].overlapped
        /\ CallTuple(calls[i].args) = CallTuple(calls[j].args)
        /\ calls[i].ret = calls[j].ret

\* C9 (as claimed): at most one row per normalized tuple, and two calls whose
\* normalized tuples (author, guild, channel, settings, scope-kind) differ in
\* any component return different conversation ids.
C9_AsClaimed ==
    /\ \A x, y \in DOMAIN convs :
          x # y => RowTuple(convs[x]) # RowTuple(convs[y])
    /\ \A i, j \in CallIds :
          (Returned(i) /\ Returned(j) /\ CallTuple(calls[i].args) # CallTuple(calls[j].args))
             => calls[i].ret # calls[j].ret

\* C9 (amended): the identity of a conversation is the normalized
\* (author, guild, channel, settings): there is at most one row per such key,
\* two calls return the same id exactly when their keys are equal, so calls
\* that differ only in the scope-kind share the conversation.
C9_KeyIsIdentity ==
    /\ \A x, y \in DOMAIN convs :
          x # y => RowKey(convs[x]) # RowKey(convs[y])
    /\ \A i, j \in CallIds :
          (Returned(i) /\ Returned(j)) =>
             (calls[i].ret = calls[j].ret <=> CallKey(calls[i].args) = CallKey(calls[j].args))

\* Two calls that differ only in the scope-kind got the same conversation.
C9_Witness ==
    \E i, j \in CallIds :
        /\ Returned(i) /\ Returned(j)
        /\ CallKey(calls[i].args) = CallKey(calls[j].args)
        /\ CallTuple(calls[i].args) # CallTuple(calls[j].args)
        /\ calls[i].ret = calls[j].ret

(* Scope normalization *)
\* An absent component counts as the empty one.
OrEmpty(x) == IF x = None THEN "" ELSE x
\* A component with the surrounding blanks removed.
Trimmed(x) == IF x = None THEN "" ELSE Strip(x)
\* The scope-kind an input asks for: trimmed, lower-cased, channel when it is
\* absent or none of the three kinds.
Kind(x) ==
    LET k == IF x = None \/ x = "" THEN "channel" ELSE Lower(Strip(x))
    IN IF k \in {"channel", "guild", "dm"} THEN k ELSE "channel"

HistoryRead == applied.pc = "done" /\ applied.fn = "get_recent_history"
\* The number a bound stands for; 0 when it is absent or not a numeral.
Numeric(value) ==
    IF value.t = "int" THEN value.v
    ELSE IF value.t = "str" /\ value.v \in {"0", "2", "30"}
    THEN CHOOSE n \in 0..30 : ToString(n) = value.v
    ELSE 0
\* The turns of conversation c, oldest first, not older than `age` minutes
\* when age is positive.
TurnsWithin(c, now, age) ==
    SelectSeq(turns, LAMBDA row : /\ row.conversation_id = c
                                  /\ age > 0 => now - row.created_at <= age)
MostRecent(q, k) == SubSeq(q, Len(q) - k + 1, Len(q))
RoleContent(q) == [i \in DOMAIN q |-> [role |-> q[i].role, content |-> q[i].content]]
HasText(row) == row.role # "" /\ row.content # ""

\* C11, as stated: the result is the k most recent turns of the conversation
\* within the age bound, oldest first, for some k <= min(maxTurns, 50), and it
\* is empty when maxTurns <= 0 or is not a number.
C11_AsClaimed ==
    HistoryRead =>
        LET a   == applied.in
            n   == Numeric(a.max_turns)
            all == TurnsWithin(a.conversation_id, a.now, Numeric(a.max_age_minutes))
        IN IF n <= 0
           THEN applied.out = <<>>
           ELSE \E k \in 0..Min(Min(n, 50), Len(all)) :
                   applied.out = RoleContent(MostRecent(all, k))

\* C11: recentHistory returns, oldest first, the turns with a non-empty role
\* and content among the min(maxTurns, 50) most recent turns of the
\* conversation that are not older than maxAgeMinutes (no age bound when
\* maxAgeMinutes <= 0, absent or not a number); it returns the empty sequence
\* when maxTurns <= 0, absent or not a number.
C11_RecentHistory ==
    HistoryRead =>
        LET a   == applied.in
            n   == Numeric(a.max_turns)
            all == TurnsWithin(a.conversation_id, a.now, Numeric(a.max_age_minutes))
        IN IF n <= 0
           THEN applied.out = <<>>
           ELSE /\ applied.out =
                      RoleContent(SelectSeq(MostRecent(all, Min(Min(n, 50), Len(all))),
                                            HasText))
                /\ Len(applied.out) <= Min(n, 50)

\* A read with a positive age bound that excludes a turn of the conversation,
\* and with a turn without content among the most recent maxTurns turns.
C11_Witness ==
    /\ HistoryRead
    /\ applied.out # <<>>
    /\ LET a   == applied.in
           n   == Numeric(a.max_turns)
           age == Numeric(a.max_age_minutes)
           all == TurnsWithin(a.conversation_id, a.now, age)
       IN /\ age > 0 /\ n > 0
          /\ Len(all) < Len(TurnsWithin(a.conversation_id, a.now, 0))
          /\ \E i \in DOMAIN all : i > Len(all) - n /\ ~HasText(all[i])

(* Admission *)
\* _handle_message has run on message m.
Handled(m) == msgs[m].pc \notin {"idle", "queued"}
\* The configuration has no allowlist.
NoAllowlists ==
    /\ _string_list(GetList(BOT_CONFIG, "guild_allowlist")) = <<>>
    /\ _string_list(GetList(BOT_CONFIG, "channel_allowlist")) = <<>>

\* C12: in every configuration a message whose author is a bot (the bot itself
\* included) is rejected by the admission filter: its handling ends at once,
\* no relay call is made for it, and nothing is stored or sent for it.
C12_BotsRejected ==
    \A m \in MsgIds :
        Handled(m) /\ msgs[m].event.bot =>
            /\ msgs[m].pc = "done" /\ msgs[m].outcome = "rejected"
            /\ msgs[m].posts = <<>> /\ msgs[m].sent = <<>>
            /\ \A i \in DOMAIN turns : turns[i].message_id # MessageId[m]
            /\ \A i \in DOMAIN audit : audit[i].message_id # MessageId[m]

\* The bot's own message, mentioning the bot, has been handled in a
\* configuration without allowlists and with mention-only off.
C12_Witness ==
    /\ Handled(1) /\ msgs[1].event.bot /\ msgs[1].event.author = BotUserId
    /\ msgs[1].event.content = "<@1> hi"
    /\ NoAllowlists /\ ~GetBool(BOT_CONFIG, "mention_only", TRUE)

\* The spelling q begins with the spelling p.
StartsWith(q, p) == Len(q) >= Len(p) /\ SubSeq(q, 1, Len(p)) = p
RawMention  == Spell["<@1>"]
NickMention == Spell["<@!1>"]
\* q without the occurrences of the two mention forms.
RECURSIVE WithoutMentions(_)
WithoutMentions(q) ==
    IF q = <<>> THEN <<>>
    ELSE IF StartsWith(q, RawMention)
    THEN WithoutMentions(SubSeq(q, Len(RawMention) + 1, Len(q)))
    ELSE IF StartsWith(q, NickMention)
    THEN WithoutMentions(SubSeq(q, Len(NickMention) + 1, Len(q)))
    ELSE <<Head(q)>> \o WithoutMentions(Tail(q))
\* q from its first to its last character that is not a blank.
Trim(q) ==
    LET inked == {i \in DOMAIN q : q[i] # " "}
    IN IF inked = {} THEN <<>>
       ELSE SubSeq(q, CHOOSE i \in inked : \A j \in inked : i <= j,
                      CHOOSE i \in inked : \A j \in inked : i >= j)
\* The handling of message m ended before the relay call because the
\* Conversation Store failed.
StoreFailed(m) == msgs[m].outcome = "escaped"

\* C13: with mention-only set and no allowlist, a message of a user that
\* mentions the bot is rejected when its content without the raw and the
\* nickname mention forms is blank; otherwise it is accepted, and the text of
\* every relay call made for it is that content, trimmed.
C13_MentionCleanup ==
    \A m \in MsgIds :
        /\ Handled(m) /\ ~msgs[m].event.bot /\ msgs[m].event.mentioned
        /\ GetBool(BOT_CONFIG, "mention_only", TRUE) /\ NoAllowlists
        => LET text == Trim(WithoutMentions(Spell[msgs[m].event.content]))
           IN IF text = <<>>
              THEN msgs[m].outcome = "rejected" /\ msgs[m].posts = <<>>
              ELSE /\ msgs[m].outcome # "rejected"
                   /\ StoreFailed(m) \/ msgs[m].posts # <<>>
                   /\ \A i \in DOMAIN msgs[m].posts : Spell[msgs[m].posts[i].text] = text

\* A message with both mention forms has been relayed as "hi".
C13_Witness ==
    /\ Handled(1) /\ ~msgs[1].event.bot /\ msgs[1].event.mentioned
    /\ GetBool(BOT_CONFIG, "mention_only", TRUE) /\ NoAllowlists
    /\ msgs[1].event.content = "hi <@1> <@!1>"
    /\ msgs[1].posts # <<>> /\ msgs[1].posts[1].text = "hi"

(* Payload assembly *)
PayloadBuilt == applied.pc = "done" /\ applied.fn = "build_message_payload"
\* The value is there and is not the empty string or the empty collection.
Present(value) ==
    /\ value.t # "none"
    /\ value.t = "str" => value.v # ""
    /\ value.t = "dict" => value.v # EmptyDict
    /\ value.t = "list" => value.v # <<>>

\* C14: for every input the payload has the five required keys, with the
\* values passed, and has an optional key iff the value passed for it is
\* present and non-empty; no optional key is in the payload with an empty
\* string, an empty collection or None, and the payload has no other key.
C14_PayloadKeys ==
    PayloadBuilt =>
        LET kw      == applied.in
            payload == applied.out
            options == {"target_user_id", "settings_instance_id", "service_secret",
                        "rag_collection_id", "model", "persona_id", "config",
                        "chat_history"}
        IN /\ {"user_id", "guild_id", "channel_id", "message_id", "text"} \subseteq DOMAIN payload
           /\ DOMAIN payload \subseteq
                 {"user_id", "guild_id", "channel_id", "message_id", "text"} \cup options
           /\ \A k \in DOMAIN payload : payload[k] = kw[k]
           /\ \A k \in options : k \in DOMAIN payload <=> Present(kw[k])
           /\ \A k \in options : k \in DOMAIN payload => Present(payload[k])

\* A payload built from some optional values that are present and some that
\* are empty or None: it carries the former only.
C14_Witness ==
    /\ PayloadBuilt
    /\ applied.in.model = PyStr("x") /\ "model" \in DOMAIN applied.out
    /\ applied.in.persona_id = PyStr("") /\ applied.in.service_secret = PyNone
    /\ applied.in.config = PyDict(EmptyDict)
    /\ applied.in.chat_history.t = "list" /\ applied.in.chat_history.v # <<>>
    /\ "chat_history" \in DOMAIN applied.out /\ "config" \notin DOMAIN applied.out

(* Reply chunks *)
\* The relay has answered message m with a reply.
Replied(m) == msgs[m].reply # None
\* ceil(n / 1900)
ChunkCount(n) == (n + 1899) \div 1900

\* C15: the reply to a message is sent on the channel of the message as
\* consecutive pieces of the reply, first piece first, each of 1 to 1900
\* characters; when no send has failed and the handling is over, the pieces
\* are ceil(n / 1900) in number and make up the whole reply of length n (none
\* for an empty reply, 3 for a reply of 5000 characters).
C15_ReplyChunks ==
    \A m \in MsgIds :
        Handled(m) /\ Replied(m) =>
            LET n    == TextLen[msgs[m].reply]
                sent == msgs[m].sent
            IN /\ Len(sent) <= ChunkCount(n)
               /\ \A i \in DOMAIN sent :
                     /\ sent[i].channel = msgs[m].event.channel
                     /\ sent[i].lo = IF i = 1 THEN 0 ELSE sent[i - 1].hi
                     /\ sent[i].hi - sent[i].lo \in 1..1900
                     /\ sent[i].hi <= n
               /\ msgs[m].pc = "done" /\ msgs[m].failed # "send" =>
                     /\ Len(sent) = ChunkCount(n)
                     /\ n > 0 => sent[Len(sent)].hi = n
                     /\ n = 5000 => Len(sent) = 3

\* A reply of 5000 characters has been sent.
C15_Witness ==
    /\ Handled(1) /\ Replied(1) /\ msgs[1].pc = "done" /\ msgs[1].outcome = "ok"
    /\ TextLen[msgs[1].reply] = 5000
    /\ Len(msgs[1].sent) = 3

(* Best-effort turns *)
\* The length of the reply to message m in state h of its handler.
ReplyLen(h) == IF h.reply = None THEN 0 ELSE TextLen[h.reply]

\* C16: a step of a handler in which the append of a turn fails goes on as if
\* it had not failed.  When the user turn is lost the relay call is made in
\* that step; when the assistant turn is lost the reply has been sent in full
\* and the step goes on to the audit row.  last-error changes in such a step
\* only if the audit row fails; a handler that lost its user turn and ended
\* well has sent the whole reply.
C16_AppendFailureSwallowed ==
    [][\A m \in MsgIds :
         LET h == msgs[m]
             g == msgs'[m]
         IN /\ "user" \in g.lost \ h.lost =>
                 /\ g.pc = "post_wait" /\ Len(g.posts) = Len(h.posts) + 1
                 /\ BOT_STATE'.last_error = BOT_STATE.last_error
            /\ "assistant" \in g.lost \ h.lost =>
                 /\ Sum(g.sent) = ReplyLen(g)
                 /\ g.pc = "done"
                 /\ g.outcome = "ok" \/ (g.outcome = "caught" /\ g.failed = "audit")
                 /\ BOT_STATE'.last_error # BOT_STATE.last_error => g.failed = "audit"
            /\ "user" \in g.lost /\ g.outcome = "ok" =>
                 Sum(g.sent) = ReplyLen(g) /\ Len(g.posts) >= 1]_vars

\* Both turns of a message were lost; its reply has been sent all the same.
C16_Witness ==
    /\ msgs[1].lost = {"user", "assistant"}
    /\ msgs[1].outcome = "ok"
    /\ msgs[1].sent # <<>>
    /\ BOT_STATE.last_error = None

(* Credential refresh *)
\* The HTTP status of a failure of the relay call; "none" when the call
\* failed without a response.
StatusOf(exc) ==
    CASE exc = "RuntimeError('BrainDrive request failed: 401')" -> "401"
      [] exc = "RuntimeError('BrainDrive request failed: 500')" -> "500"
      [] exc = "RuntimeError('BrainDrive request failed: 500 code 401')" -> "500"
      [] OTHER -> "none"
\* A refresh credential is configured.
HasRefreshCredential == OrStr(GetStr(BOT_CONFIG, "refresh_token"), "") # ""
\* The handler of message m is resumed with the failure of its first relay call.
FirstCallFails(m) ==
    /\ msgs[m].pc = "post_wait" /\ msgs'[m].pc # "post_wait"
    /\ msgs[m].wake # NoWake /\ ~msgs[m].wake.ok

\* C17: a refresh is attempted (and with it a retry made possible) only when
\* the relay call failed with status 401 and a refresh credential is
\* configured; a failure with another status, or without a response, ends the
\* handling with no refresh and no retry and is written to last-error,
\* whatever its text contains.
C17_RefreshOnlyOn401 ==
    [][\A m \in MsgIds :
         LET h == msgs[m]
             g == msgs'[m]
         IN /\ g.refreshes > h.refreshes =>
                 /\ h.pc = "post_wait" /\ ~h.wake.ok
                 /\ StatusOf(h.wake.exc) = "401"
                 /\ HasRefreshCredential
            /\ FirstCallFails(m) /\ StatusOf(h.wake.exc) # "401" =>
                 /\ g.pc = "done" /\ g.outcome = "caught"
                 /\ g.refreshes = h.refreshes /\ g.posts = h.posts
                 /\ BOT_STATE'.last_error = h.wake.exc]_vars

\* The refresh endpoint gave no new access token: the call failed, or its
\* answer holds none.
RefreshFailed(res) == ~res.ok \/ res.access = None
\* A refresh can be sent: a refresh credential and the URL of the API are
\* configured.
CanRefresh ==
    /\ HasRefreshCredential
    /\ OrStr(GetStr(BOT_CONFIG, "api_url"), "") \notin {"", "/"}

\* C18: when the relay call failed with 401 and the refresh gives no new
\* access token (nothing to send it with, the endpoint unreachable or
\* answering with an error, an answer without access token), the handling
\* ends there: no further relay call is made, and last-error is the 401
\* failure of the relay call.
C18_RefreshFailureKeeps401 ==
    [][\A m \in MsgIds :
         LET h == msgs[m]
             g == msgs'[m]
         IN (\/ FirstCallFails(m) /\ h.wake.exc = Error401 /\ ~CanRefresh
             \/ /\ h.pc = "refresh_wait" /\ g.pc # "refresh_wait"
                /\ h.first = Error401 /\ RefreshFailed(h.wake))
            => /\ g.pc = "done" /\ g.outcome = "caught"
               /\ g.posts = h.posts /\ Len(g.posts) = 1
               /\ g.error = Error401
               /\ BOT_STATE'.last_error = Error401]_vars

\* A 401 of the relay was followed by a refresh without a new access token.
C18_Witness ==
    /\ msgs[1].pc = "done" /\ msgs[1].first = Error401
    /\ msgs[1].refreshes = 1 /\ msgs[1].refreshed = None
    /\ Len(msgs[1].posts) = 1
    /\ BOT_STATE.last_error = Error401

(* Store failures of an accepted event *)
\* C19: when find-or-create or the history read fails for an accepted
\* message, the handling goes on and the relay call is made.
C19_StoreFailureNonFatal ==
    \A m \in MsgIds :
        Handled(m) /\ msgs[m].failed \in {"lookup", "history"} =>
            msgs[m].posts # <<>>

\* The turns stored for message m, by role.
StoredRoles(m) ==
    {turns[i].role : i \in {j \in DOMAIN turns : turns[j].message_id = MessageId[m]}}

\* C20: once the relay has replied to a message and its handling is over,
\* the user turn and the assistant turn of the message are in the store (no
\* append having failed), whether the reply could be sent or not.
C20_BothTurnsStored ==
    \A m \in MsgIds :
        Handled(m) /\ Replied(m) /\ msgs[m].pc = "done" /\ msgs[m].lost = {} =>
            StoredRoles(m) = {"user", "assistant"}

(* Order of effects *)
\* The rows of the store that belong to other messages than m.
TurnsOfOthers(m) == {i \in DOMAIN turns : turns[i].message_id # MessageId[m]}

\* C21: the effects of an accepted message come in the order history read,
\* relay call, reply chunks, turns: the history in its payload holds no turn
\* of the message itself, a turn of the message is in the store only when the
\* relay has replied and the reply has been sent, and a message whose relay
\* call failed has no turn in the store.
C21_EffectOrder ==
    \A m \in MsgIds :
        Handled(m) =>
            /\ Len(msgs[m].history) <= Cardinality(TurnsOfOthers(m))
            /\ StoredRoles(m) # {} =>
                  Replied(m) /\ Sum(msgs[m].sent) = ReplyLen(msgs[m])
            /\ msgs[m].failed = "relay" => StoredRoles(m) = {}

(* Stop and the configuration *)
\* What GET /bot/status reports of the configuration (lines 80-85), when no
\* configuration is held.
NoConfigReported ==
    /\ "mention_only" \notin DOMAIN BOT_CONFIG
    /\ "guild_allowlist" \notin DOMAIN BOT_CONFIG
    /\ "channel_allowlist" \notin DOMAIN BOT_CONFIG
    /\ "settings_instance_id" \notin DOMAIN BOT_CONFIG

\* C22: when a stop request that runs with no other request in flight
\* returns, the session task handle, the client handle and the configuration
\* are cleared, and the status reports no configuration.
C22_StopClearsConfig ==
    [][\A r \in ReqIds :
         (Returns(r) /\ reqs[r].kind = "stop" /\ reqs'[r].solo) =>
             /\ BOT_TASK' = 0 /\ BOT_CLIENT' = 0
             /\ BOT_CONFIG' = EmptyDict
             /\ NoConfigReported']_vars

(* Runtime state *)
\* The task or callback `item` at the head of the ready queue takes its step.
Runs(item) == ready # <<>> /\ Head(ready) = item /\ ready' = Tail(ready)
\* The session task t is resumed with the failure of client.start.
FailureReaches(t) ==
    /\ Runs(TaskItem(t)) /\ tasks[t].st = "running" /\ tasks[t].wake = "exc"

\* C23: the establishment callback sets connected and clears last-error; the
\* drop callback clears connected; a failure of the session clears connected
\* and records last-error; none of the three changes enabled or the
\* configuration.
C23_StateFollowsSession ==
    [][\A t \in TaskIds :
         /\ Runs(ReadyItem(t)) =>
               /\ BOT_STATE'.connected = TRUE /\ BOT_STATE'.last_error = None
               /\ BOT_STATE'.enabled = BOT_STATE.enabled /\ BOT_CONFIG' = BOT_CONFIG
         /\ Runs(DisconnectItem(t)) =>
               /\ BOT_STATE'.connected = FALSE
               /\ BOT_STATE'.last_error = BOT_STATE.last_error
               /\ BOT_STATE'.enabled = BOT_STATE.enabled /\ BOT_CONFIG' = BOT_CONFIG
         /\ FailureReaches(t) =>
               /\ BOT_STATE'.connected = FALSE /\ BOT_STATE'.last_error # None
               /\ BOT_STATE'.enabled = BOT_STATE.enabled /\ BOT_CONFIG' = BOT_CONFIG]_vars

\* An established session has failed: not connected, last-error recorded,
\* still enabled.
C23_Witness ==
    /\ \E t \in TaskIds : tasks[t].cause = "exc" /\ BOT_TASK = t
    /\ gateway >= 2
    /\ BOT_STATE.enabled /\ ~BOT_STATE.connected /\ BOT_STATE.last_error # None

(* Recovery *)
\* The session task the handle refers to has ended because its session failed.
SessionFailed ==
    /\ BOT_TASK # 0 /\ tasks[BOT_TASK].st = "done" /\ tasks[BOT_TASK].cause = "exc"
    /\ BOT_STATE.enabled /\ ~BOT_STATE.connected /\ BOT_STATE.last_error # None

\* C24: a start with the configured credential, handled after the session
\* task has ended in a failure, is no no-op: in that step the configuration
\* becomes the one of the request, last-error is cleared, and a new session
\* task is created, which the session handle refers to.
C24_RestartAfterFailure ==
    [][\A r \in ReqIds :
         (/\ Handles(r) /\ reqs[r].kind = "start" /\ SessionFailed
          /\ GetStr(BOT_CONFIG, "token") = reqs[r].token) =>
            /\ ~reqs'[r].noop /\ reqs'[r].pc = "done"
            /\ reqs'[r].launched # 0 /\ BOT_TASK' = reqs'[r].launched
            /\ BOT_TASK' # BOT_TASK
            /\ tasks[BOT_TASK'].st = "none" /\ tasks'[BOT_TASK'].st = "pending"
            /\ BOT_CONFIG' = start_bot_config(reqs[r].token, reqs[r].payload)
            /\ BOT_STATE' = [enabled |-> TRUE, connected |-> FALSE, last_error |-> None]]_vars

\* The second start, with the credential of the failed first session and
\* without a stop in between, has launched the second session task.
C24_Witness ==
    /\ tasks[1].st = "done" /\ tasks[1].cause = "exc"
    /\ reqs[2].kind = "start" /\ reqs[2].launched = 2 /\ reqs[2].old = 0
    /\ reqs[2].token = tasks[1].token
    /\ reqs[3].kind = "none"
    /\ BOT_TASK = 2 /\ BOT_STATE.last_error = None

\* The entries of the allowlist k of the configuration that are not blank.
Allowlist(k) ==
    LET list == GetList(BOT_CONFIG, k)
    IN {list[i] : i \in {j \in DOMAIN list : Trim(Spell[list[j]]) # <<>>}}
\* The text of the event after the cleanup: without the mention forms and
\* trimmed when mention-only is set, the content as it is otherwise.
CleanedText(ev) ==
    IF GetBool(BOT_CONFIG, "mention_only", TRUE)
    THEN Trim(WithoutMentions(Spell[ev.content]))
    ELSE Spell[ev.content]
\* The three conditions of the admission on the event.
Admissible(ev) ==
    /\ ~GetBool(BOT_CONFIG, "mention_only", TRUE) \/ ev.mentioned
    /\ \/ Allowlist("guild_allowlist") = {}
       \/ ev.guild = None
       \/ ev.guild \in Allowlist("guild_allowlist")
    /\ \/ Allowlist("channel_allowlist") = {}
       \/ ev.channel \in Allowlist("channel_allowlist")

\* C25: a message of a user, delivered by the established session, whose
\* cleaned text is not empty is accepted exactly when (mention-only is off or
\* the bot is mentioned) and (the guild allowlist is empty, or the message has
\* no guild, or its guild is in the allowlist) and (the channel allowlist is
\* empty or its channel is in the allowlist).
C25_AdmissionRule ==
    \A m \in MsgIds :
        (Handled(m) /\ ~msgs[m].event.bot /\ CleanedText(msgs[m].event) # <<>>) =>
            (msgs[m].outcome # "rejected" <=> Admissible(msgs[m].event))

\* A direct message, without guild, has been accepted and relayed under a
\* guild allowlist that is not empty.
C25_Witness ==
    /\ Handled(1) /\ ~msgs[1].event.bot /\ msgs[1].event.guild = None
    /\ Allowlist("guild_allowlist") = {"g1"}
    /\ msgs[1].outcome # "rejected" /\ msgs[1].posts # <<>>

\* A message of a user in a channel out of the channel allowlist, in a guild
\* and without guild, has been rejected.
C25_ChannelWitness ==
    /\ Handled(1) /\ ~msgs[1].event.bot /\ msgs[1].event.mentioned
    /\ CleanedText(msgs[1].event) # <<>>
    /\ Allowlist("channel_allowlist") = {"c1"} /\ msgs[1].event.channel = "c2"
    /\ msgs[1].event.guild = None /\ msgs[1].outcome = "rejected"

\* The step in which the handler of message m runs on the delivered message.
Admits(m) == msgs[m].pc = "queued" /\ msgs'[m].pc # "queued"

\* C26: the step that rejects a message changes no conversation, no turn, no
\* audit-log row, no runtime state and no configuration, makes no relay call,
\* no refresh call and sends no outbound message; and nothing is done for a
\* rejected message afterwards.
C26_RejectionIsNoOp ==
    [][\A m \in MsgIds :
         /\ (Admits(m) /\ msgs'[m].outcome = "rejected") =>
                /\ UNCHANGED <<convs, turns, audit, BOT_STATE, BOT_CONFIG>>
                /\ msgs'[m].conv = 0 /\ msgs'[m].posts = <<>>
                /\ msgs'[m].refreshes = 0 /\ msgs'[m].sent = <<>>
                /\ msgs'[m].pc = "done"
         /\ msgs[m].outcome = "rejected" => msgs'[m] = msgs[m]]_vars

\* A message of a user out of the channel allowlist has been rejected, and
\* neither the stores nor the runtime state hold a trace of it.
C26_Witness ==
    /\ msgs[1].pc = "done" /\ msgs[1].outcome = "rejected"
    /\ ~msgs[1].event.bot /\ msgs[1].event.content = "<@1> hi"
    /\ convs = <<>> /\ turns = <<>> /\ audit = <<>>
    /\ BOT_STATE = [enabled |-> TRUE, connected |-> TRUE, last_error |-> None]

\* C27: in every reachable state connected=true implies enabled=true and a
\* session task that is alive and that the session handle refers to; so that
\* connected is false from the return of a stop to the next start.
C27_ConnectedImpliesSession ==
    BOT_STATE.connected =>
        /\ BOT_STATE.enabled
        /\ BOT_TASK # 0 /\ Alive(BOT_TASK)

\* The handler of message m is resumed with the answer of the refresh endpoint.
RefreshReturns(m) ==
    /\ msgs[m].pc = "refresh_wait" /\ msgs'[m].pc # "refresh_wait"
    /\ msgs[m].wake # NoWake
\* The configurations c and d hold the same value, or both none, under key k.
SameAt(c, d, k) ==
    /\ k \in DOMAIN c <=> k \in DOMAIN d
    /\ k \in DOMAIN c => c[k] = d[k]

\* C28: a refresh that counts as failed (nothing to send, an error of the
\* endpoint, an answer without access token) leaves the auth token and the
\* refresh token of the configuration unchanged; a successful refresh sets the
\* auth token, sets the refresh token only when the answer holds one, and
\* changes no other field of the configuration.
C28_RefreshChangesCredentialsOnly ==
    [][\A m \in MsgIds :
         /\ (FirstCallFails(m) /\ Contains401(msgs[m].wake.exc) /\ ~CanRefresh) =>
                BOT_CONFIG' = BOT_CONFIG
         /\ (RefreshReturns(m) /\ RefreshFailed(msgs[m].wake)) =>
                /\ SameAt(BOT_CONFIG', BOT_CONFIG, "auth_token")
                /\ SameAt(BOT_CONFIG', BOT_CONFIG, "refresh_token")
         /\ (RefreshReturns(m) /\ ~RefreshFailed(msgs[m].wake)) =>
                /\ GetStr(BOT_CONFIG', "auth_token") = msgs[m].wake.access
                /\ msgs[m].wake.refresh = None =>
                       SameAt(BOT_CONFIG', BOT_CONFIG, "refresh_token")
                /\ msgs[m].wake.refresh # None =>
                       GetStr(BOT_CONFIG', "refresh_token") = msgs[m].wake.refresh
                /\ \A k \in (DOMAIN BOT_CONFIG \cup DOMAIN BOT_CONFIG') \ {"auth_token", "refresh_token"} :
                       SameAt(BOT_CONFIG', BOT_CONFIG, k)]_vars

====
